---- MODULE Spec2Model ----
(***************************************************************************)
(* The wagey.gg GitHub job publisher: one run of main() of the hardened    *)
(* publisher script (fetch with retry, noise filter, region buckets,       *)
(* render, nine sequential writes).                                        *)
(*                                                                         *)
(* Text is modelled as a sequence of one-character strings, so that trim,  *)
(* the regular expressions, slugify and the title hash are computed on     *)
(* characters.  JavaScript's undefined is the value Undef for text fields  *)
(* and UndefVal for the region, the flags and the visibility.              *)
(***************************************************************************)
EXTENDS Integers, Sequences, FiniteSets, TLC

VARIABLES
  net,        \* the responses the endpoint gives, attempt by attempt
  dryRun,     \* DRY_RUN: the --dry-run switch
  now,        \* the clock read while rendering (ms)
  pc,         \* where main() is
  attempt,    \* the loop counter of fetchJobs
  log,        \* the responses fetchJobs has received, in order
  sleeps,     \* the delays fetchJobs has slept, in order (ms)
  pending,    \* the delay of the sleep in progress (0: none)
  jobs,       \* main's jobs: the records fetchJobs returned
  meta,       \* main's meta: the metadata envelope fetchJobs returned
  groups,     \* main's groups: the result of groupByRegion
  calls,      \* the writeFile calls made so far
  fs,         \* the nine output files
  dirs,       \* the directories mkdirSync has made sure of
  gitLogs,    \* what git log gives in the three target repositories
  historyTable, \* main's historyTable: the result of buildHistoryTable
  topJobs,    \* the hero table of the first revision: its salary-first sortJobs
  exitCode,   \* the process exit status (-1 while running)
  fatal       \* what ended the run with status 1 ("none" otherwise): "fetch",
              \* fetchJobs threw; "destructure", it returned undefined;
              \* "empty", the empty-feed abort; "group", groupByRegion
              \* threw; "write", a writeFile call threw

vars == <<net, dryRun, now, pc, attempt, log, sleeps, pending, jobs, meta,
          groups, calls, fs, dirs, gitLogs, historyTable, topJobs, exitCode, fatal>>

----------------------------------------------------------------------------
(* Bounds of the model *)

\* the longest response body, in lines
MaxLines == 2

\* how far a large feed exceeds the row limit of a table
BulkOver == 1

\* the longest log of the primary target, in entries
MaxLogLen == 2

\* the longest text of a skill list, in characters
MaxSkillLen == 4

\* the longest list the salary-first policy is checked on, in records
MaxSortLen == 3

\* the longest stream fetchJobs is checked on, in lines
MaxStream == 3

----------------------------------------------------------------------------
(* Text *)

Undef == <<"<undefined>">>
NullStr == <<"<null>">>
Null == [null |-> TRUE]

Truthy(s) == s # Undef /\ s # NullStr /\ s # <<>>

\* (str || '')
OrEmpty(s) == IF Truthy(s) THEN s ELSE <<>>

LowerAlpha == <<"a","b","c","d","e","f","g","h","i","j","k","l","m",
                "n","o","p","q","r","s","t","u","v","w","x","y","z">>
UpperAlpha == <<"A","B","C","D","E","F","G","H","I","J","K","L","M",
                "N","O","P","Q","R","S","T","U","V","W","X","Y","Z">>
Digits == <<"0","1","2","3","4","5","6","7","8","9">>

Range(f) == {f[i] : i \in DOMAIN f}

IndexOf(seq, c) == CHOOSE i \in DOMAIN seq : seq[i] = c

toLowerCase(c) == IF c \in Range(UpperAlpha) THEN LowerAlpha[IndexOf(UpperAlpha, c)] ELSE c
toUpperCase(c) == IF c \in Range(LowerAlpha) THEN UpperAlpha[IndexOf(LowerAlpha, c)] ELSE c

LowerStr(s) == [i \in DOMAIN s |-> toLowerCase(s[i])]

\* the characters \s matches and trim() removes
IsSpace(c) == c \in {" ", "\t", "\n", "\r"}

RECURSIVE TrimStart(_)
TrimStart(s) == IF s # <<>> /\ IsSpace(Head(s)) THEN TrimStart(Tail(s)) ELSE s

RECURSIVE TrimEnd(_)
TrimEnd(s) ==
  IF s # <<>> /\ IsSpace(s[Len(s)]) THEN TrimEnd(SubSeq(s, 1, Len(s) - 1)) ELSE s

trim(s) == TrimEnd(TrimStart(s))

\* s.slice(0, n)
slice(s, n) == SubSeq(s, 1, IF Len(s) < n THEN Len(s) ELSE n)

\* str.split(sep) for a one-character separator
Split(s, sep) ==
  LET cuts == {0} \cup {i \in DOMAIN s : s[i] = sep} \cup {Len(s) + 1}
      Cut(k) == CHOOSE c \in cuts : Cardinality({d \in cuts : d < c}) = k - 1
  IN [k \in 1..(Cardinality(cuts) - 1) |-> SubSeq(s, Cut(k) + 1, Cut(k + 1) - 1)]

\* parts.join(sep)
RECURSIVE Join(_, _)
Join(parts, sep) ==
  IF parts = <<>> THEN <<>>
  ELSE IF Len(parts) = 1 THEN parts[1]
  ELSE parts[1] \o <<sep>> \o Join(Tail(parts), sep)

----------------------------------------------------------------------------
(* Regular expressions: a pattern is a sequence of elements, matched        *)
(* against the whole text (^...$).                                          *)
(*   [t |-> "chr", c]      one character, compared under the i flag         *)
(*   [t |-> "ws"]          \s+                                              *)
(*   [t |-> "alt", alts]   ( p1 | p2 | ... )                                *)

Chr(c) == [t |-> "chr", c |-> c]
Ws == [t |-> "ws"]
Alt(ps) == [t |-> "alt", alts |-> ps]
Lit(w) == [i \in DOMAIN w |-> Chr(w[i])]
\* x? for a one-character x
Opt(c) == Alt(<< <<Chr(c)>>, <<>> >>)

\* the i flag: both sides are canonicalized to upper case
Canonicalize(c) == toUpperCase(c)

RECURSIVE Matches(_, _)
Matches(p, s) ==
  IF p = <<>> THEN s = <<>>
  ELSE LET e == Head(p)
           r == Tail(p)
       IN CASE e.t = "chr" ->
                 /\ s # <<>>
                 /\ Canonicalize(Head(s)) = Canonicalize(e.c)
                 /\ Matches(r, Tail(s))
            [] e.t = "ws" ->
                 /\ s # <<>>
                 /\ IsSpace(Head(s))
                 /\ (Matches(r, Tail(s)) \/ Matches(p, Tail(s)))
            [] e.t = "alt" ->
                 \E i \in DOMAIN e.alts : Matches(e.alts[i] \o r, s)

----------------------------------------------------------------------------
(* The noise filter *)

W_career == <<"c","a","r","e","e","r">>
W_job == <<"j","o","b">>
W_opening == <<"o","p","e","n","i","n","g">>
W_open == <<"o","p","e","n">>
W_position == <<"p","o","s","i","t","i","o","n">>
W_current == <<"c","u","r","r","e","n","t">>
W_join == <<"j","o","i","n">>
W_our == <<"o","u","r">>
W_team == <<"t","e","a","m">>
W_work == <<"w","o","r","k">>
W_with == <<"w","i","t","h">>
W_at == <<"a","t">>
W_for == <<"f","o","r">>
W_us == <<"u","s">>

\* /^(careers?|job\s+openings?|open\s+positions?|positions?|
\*    current\s+(job\s+)?openings?|join\s+our\s+team|work\s+(with|at|for)\s+us)$/i
GARBAGE_TITLES ==
  << Alt(<< Lit(W_career) \o <<Opt("s")>>,
            Lit(W_job) \o <<Ws>> \o Lit(W_opening) \o <<Opt("s")>>,
            Lit(W_open) \o <<Ws>> \o Lit(W_position) \o <<Opt("s")>>,
            Lit(W_position) \o <<Opt("s")>>,
            Lit(W_current) \o <<Ws>>
              \o << Alt(<< Lit(W_job) \o <<Ws>>, <<>> >>) >>
              \o Lit(W_opening) \o <<Opt("s")>>,
            Lit(W_join) \o <<Ws>> \o Lit(W_our) \o <<Ws>> \o Lit(W_team),
            Lit(W_work) \o <<Ws>>
              \o << Alt(<< Lit(W_with), Lit(W_at), Lit(W_for) >>) >>
              \o <<Ws>> \o Lit(W_us) >>) >>

\* the title as the filter reads it: (job.title || '').trim()
TitleRead(job) == trim(OrEmpty(job.title))

\* the test without the trim
isGarbageJob_NoTrim(job) == Matches(GARBAGE_TITLES, OrEmpty(job.title))

isGarbageJob(job) == Matches(GARBAGE_TITLES, TitleRead(job))

----------------------------------------------------------------------------
(* Job records.  salaryMin, salaryMax, verifiedAt and scrapedAt are 0 when  *)
(* absent (the code only tests them for truthiness and emits null for any   *)
(* falsy value); scrapedAt and verifiedAt are times in ms.  The flags       *)
(* isRemote and visibility and the region are plain strings, UndefVal when  *)
(* absent.  skills is the text of the skill list, Undef when absent.  The   *)
(* pass-through fields seniority and ats are not carried.                   *)

UndefVal == "<undefined>"

Job(id, title, company, region, isRemote, visibility, sMin, sMax, scraped) ==
  [id |-> id, title |-> title, company |-> company, region |-> region,
   isRemote |-> isRemote, visibility |-> visibility,
   salaryMin |-> sMin, salaryMax |-> sMax, verifiedAt |-> 0,
   scrapedAt |-> scraped, location |-> Undef, salary |-> Undef,
   skills |-> Undef]

\* job.isRemote tested against false instead of for truthiness
IsRemote_NotFalse(job) == job.isRemote # "false"

\* job.isRemote as a condition: true when the flag is true
IsRemote(job) == job.isRemote = "true"

\* job.region || 'WW'
RegionOrWW(job) == IF job.region \in {UndefVal, ""} THEN "WW" ELSE job.region

HOUR == 3600000

S_Dev == <<"D","e","v">>
S_QA == <<"Q","|","A">>
S_Careers == <<" ","C","a","r","e","e","r","s","\n">>
S_OpenPositions == <<"O","P","E","N"," ","\t","p","o","s","i","t","i","o","n">>
S_CareersCoach == <<"C","a","r","e","e","r","s"," ","C","o","a","c","h">>
S_Acme == <<"A","c","m","e">>
S_Zed == <<"Z","e","d"," ","C","o">>
S_j1 == <<"j","1">>
S_j2 == <<"j","2">>
S_j3 == <<"j","3">>
S_j4 == <<"j","4">>
S_j5 == <<"j","5">>
S_j6 == <<"j","6">>
S_j7 == <<"j","7">>
S_j8 == <<"j","8">>
S_j9 == <<"j","9">>
S_j11 == <<"j","1","1">>
S_j12 == <<"j","1","2">>
S_Hourly == <<"$","5","0","/","h","o","u","r">>
S_j10 == <<"j","1","0">>

\* the records a feed may carry
JobPool ==
  { \* region empty, remote: the Worldwide bucket
    Job(S_j1, S_Dev, S_Acme, "", "true", UndefVal, 90000, 120000, 99 * HOUR),
    \* Worldwide but not remote
    Job(S_j2, S_QA, S_Zed, "WW", "false", "teaser", 0, 0, 40 * HOUR),
    \* no region, no remote flag, no title
    Job(S_j3, Undef, S_Zed, UndefVal, UndefVal, UndefVal, 0, 80000, 75 * HOUR),
    Job(S_j4, S_Dev, S_Acme, "EMEA", "false", "teaser", 50000, 50000, 98 * HOUR),
    \* a noise title, in mixed case with blanks around it
    Job(S_j5, S_Careers, S_Acme, "EMEA", "true", "full", 0, 0, 10 * HOUR),
    \* a title that only contains a noise phrase
    Job(S_j6, S_CareersCoach, S_Zed, "APAC", UndefVal, "teaser", 700, 0, 52 * HOUR),
    \* a noise title and a region naming a member of Object.prototype
    Job(S_j7, S_OpenPositions, S_Zed, "constructor", "true", "full", 0, 0, 1 * HOUR),
    \* an unrecognized region
    Job(S_j8, S_QA, S_Acme, "MARS", "true", "full", 0, 0, 99 * HOUR),
    \* a region naming a member of Object.prototype
    Job(S_j9, S_Dev, S_Zed, "constructor", "false", "full", 0, 0, 30 * HOUR),
    \* no title, a teaser
    Job(S_j10, Undef, S_Acme, "NA", "true", "teaser", 0, 0, 99 * HOUR),
    \* a salary given as text only
    [Job(S_j11, S_Dev, S_Zed, "EMEA", "true", "full", 0, 0, 20 * HOUR)
       EXCEPT !.salary = S_Hourly],
    \* no scrapedAt
    Job(S_j12, S_QA, S_Acme, "NA", "true", "full", 0, 0, 0) }

----------------------------------------------------------------------------
(* The feed: responses, bodies and lines *)

\* a line of a body: blank, not JSON ("bad"), the JSON value null, or an
\* envelope {type, d, companyLogos}
BlankLine == [kind |-> "blank", type |-> "", d |-> Null, companyLogos |-> <<>>]
BadLine == [kind |-> "bad", type |-> "", d |-> Null, companyLogos |-> <<>>]
NullLine == [kind |-> "null", type |-> "", d |-> Null, companyLogos |-> <<>>]
Envelope(type, d, logos) ==
  [kind |-> "obj", type |-> type, d |-> d, companyLogos |-> logos]
JobLine(j) == Envelope("job", j, <<>>)
DoneLine == Envelope("done", Null, <<>>)
\* the logo map: normalized company name -> logo id
Logos1 == [n \in {<<"a","c","m","e">>} |-> "logo-7"]
MetaLine == Envelope("meta", Null, Logos1)
NoMeta == [kind |-> "none", type |-> "", d |-> Null, companyLogos |-> <<>>]

Http(status, body) == [kind |-> "http", status |-> status, body |-> body]
\* the transport fails (connection reset, DNS)
NetErr == [kind |-> "neterr", status |-> 0, body |-> <<>>]
\* AbortSignal.timeout(FETCH_TIMEOUT_MS) fires
TimedOut == [kind |-> "timeout", status |-> 0, body |-> <<>>]

\* all sequences over S of length at most n
SeqUpTo(S, n) == UNION {[1..k -> S] : k \in 0..n}

----------------------------------------------------------------------------
(* fetchJobs *)

MAX_RETRIES == 5
INITIAL_DELAY_MS == 3000

\* resp.ok
RespOk(status) == status >= 200 /\ status <= 299

isRetryable(status) == status >= 500 \/ status = 429

\* a delay that grows by the base delay instead of doubling
Delay_Linear(k) == INITIAL_DELAY_MS * k

\* INITIAL_DELAY_MS * Math.pow(2, attempt - 1)
Delay(k) == INITIAL_DELAY_MS * 2^(k - 1)

\* a retry test that gives up one attempt early
MayRetry_OneFewer(k) == k < MAX_RETRIES - 1

\* a retry test that lets the last attempt sleep and continue as well
MayRetry_Always(k) == k <= MAX_RETRIES

\* attempt < MAX_RETRIES, the test both retry paths make
MayRetry(k) == k < MAX_RETRIES

\* text.split('\n').filter(l => l.trim())
NonBlank(body) == SelectSeq(body, LAMBDA l : l.kind # "blank")

\* the parse loop keeping the first meta line in place of the last
ParseLines_FirstMeta(lines, js, m) ==
  LET metas == {i \in DOMAIN lines : lines[i].type = "meta"}
      jobLines == SelectSeq(lines, LAMBDA l : l.type = "job")
  IN IF \E i \in DOMAIN lines : lines[i].kind \in {"bad", "null"}
     THEN [threw |-> TRUE, jobs |-> <<>>, meta |-> NoMeta]
     ELSE [threw |-> FALSE,
           jobs |-> js \o [i \in DOMAIN jobLines |-> jobLines[i].d],
           meta |-> IF metas = {} THEN m
                    ELSE lines[CHOOSE i \in metas : \A k \in metas : i <= k]]

\* the parse loop over the lines; JSON.parse throws on a line that is not
\* JSON, and obj.type throws on the value null.  Otherwise the loop leaves
\* the d of the job lines in order and the last meta line
ParseLines(lines, js, m) ==
  LET metas == {i \in DOMAIN lines : lines[i].type = "meta"}
      jobLines == SelectSeq(lines, LAMBDA l : l.type = "job")
  IN IF \E i \in DOMAIN lines : lines[i].kind \in {"bad", "null"}
     THEN [threw |-> TRUE, jobs |-> <<>>, meta |-> NoMeta]
     ELSE [threw |-> FALSE,
           jobs |-> js \o [i \in DOMAIN jobLines |-> jobLines[i].d],
           meta |-> IF metas = {} THEN m
                    ELSE lines[CHOOSE i \in metas : \A k \in metas : k <= i]]

\* what the catch block does with an error thrown in the try block
CatchBlock(k) ==
  IF MayRetry(k) THEN [t |-> "sleep", delay |-> Delay(k)] ELSE [t |-> "throw"]

\* one iteration of the retry loop on the response resp:
\* sleep and continue, return {jobs, meta}, or throw to the caller
fetchAttempt(resp, k) ==
  IF resp.kind # "http" THEN CatchBlock(k)
  ELSE IF ~RespOk(resp.status)
       THEN IF isRetryable(resp.status) /\ MayRetry(k)
            THEN [t |-> "sleep", delay |-> Delay(k)]
            ELSE CatchBlock(k)   \* the throw of line 177 is inside the try
  ELSE LET parsed == ParseLines(NonBlank(resp.body), <<>>, NoMeta)
       IN IF parsed.threw THEN CatchBlock(k)
          ELSE [t |-> "return", jobs |-> parsed.jobs, meta |-> parsed.meta]

\* the response to the k-th request: the endpoint keeps giving its last one
Respond(k) == net[IF k < Len(net) THEN k ELSE Len(net)]

----------------------------------------------------------------------------
(* groupByRegion *)

RegionCodes == {"WW", "EMEA", "APAC", "NA", "LATAM"}

\* the property names every object literal inherits from Object.prototype
ObjectPrototypeKeys ==
  {"constructor", "toString", "toLocaleString", "valueOf", "hasOwnProperty",
   "isPrototypeOf", "propertyIsEnumerable", "__proto__", "__defineGetter__",
   "__defineSetter__", "__lookupGetter__", "__lookupSetter__"}

\* groups[region] on { WW: [], EMEA: [], APAC: [], NA: [], LATAM: [] }:
\* one of the five arrays, an inherited member (truthy, without push), or undefined
GroupsLookup(region) ==
  IF region \in RegionCodes THEN "array"
  ELSE IF region \in ObjectPrototypeKeys THEN "inherited"
  ELSE "undefined"

EmptyGroups == [threw |-> FALSE, bucket |-> [c \in RegionCodes |-> <<>>]]

\* the loop body of groupByRegion pushes job onto groups[code]
Pushes(job, code) ==
  /\ ~isGarbageJob(job)
  /\ RegionOrWW(job) = code
  /\ code = "WW" => IsRemote(job)
  /\ code # "WW" => GroupsLookup(code) = "array"

\* the loop body throws on job: groups[region].push is not a function
PushThrows(job) ==
  /\ ~isGarbageJob(job)
  /\ RegionOrWW(job) # "WW"
  /\ GroupsLookup(RegionOrWW(job)) = "inherited"

\* groupByRegion: the loop runs over the records in feed order, up to the
\* first one it throws on (threw)
groupByRegion(js) ==
  LET thrown == {i \in DOMAIN js : PushThrows(js[i])}
      done == IF thrown = {} THEN js
              ELSE SubSeq(js, 1, (CHOOSE i \in thrown : \A k \in thrown : i <= k) - 1)
  IN [threw |-> thrown # {},
      bucket |-> [c \in RegionCodes |-> SelectSeq(done, LAMBDA job : Pushes(job, c))]]

----------------------------------------------------------------------------
(* Formatting helpers *)

\* the printable ASCII characters of codes 32 to 95, and 97 to 126
AsciiLow ==
  <<" ","!","\"","#","$","%","&","'","(",")","*","+",",","-",".","/",
    "0","1","2","3","4","5","6","7","8","9",":",";","<","=",">","?",
    "@","A","B","C","D","E","F","G","H","I","J","K","L","M","N","O",
    "P","Q","R","S","T","U","V","W","X","Y","Z","[","\\","]","^","_">>
AsciiHigh ==
  <<"a","b","c","d","e","f","g","h","i","j","k","l","m","n","o","p",
    "q","r","s","t","u","v","w","x","y","z","{","|","}","~">>

\* s.charCodeAt(i)
charCodeAt(c) ==
  IF c = "\n" THEN 10
  ELSE IF c = "\t" THEN 9
  ELSE IF c = "\r" THEN 13
  ELSE IF c \in Range(AsciiLow) THEN 31 + IndexOf(AsciiLow, c)
  ELSE 96 + IndexOf(AsciiHigh, c)

IsAlnumLower(c) == c \in Range(LowerAlpha) \/ c \in Range(Digits)

\* a text field inside a template literal
Interpolate(s) ==
  IF s = Undef THEN <<"u","n","d","e","f","i","n","e","d">>
  ELSE IF s = NullStr THEN <<"n","u","l","l">>
  ELSE s

\* .replace(/[^a-z0-9]+/g, '-') on lower-case text
RECURSIVE Dashed(_, _)
Dashed(s, inRun) ==
  IF s = <<>> THEN <<>>
  ELSE IF IsAlnumLower(Head(s)) THEN <<Head(s)>> \o Dashed(Tail(s), FALSE)
  ELSE IF inRun THEN Dashed(Tail(s), TRUE)
  ELSE <<"-">> \o Dashed(Tail(s), TRUE)

\* .replace(/^-+|-+$/g, '')
RECURSIVE StripDashStart(_)
StripDashStart(s) == IF s # <<>> /\ Head(s) = "-" THEN StripDashStart(Tail(s)) ELSE s

RECURSIVE StripDashEnd(_)
StripDashEnd(s) ==
  IF s # <<>> /\ s[Len(s)] = "-" THEN StripDashEnd(SubSeq(s, 1, Len(s) - 1)) ELSE s

slugify(text) == slice(StripDashEnd(StripDashStart(Dashed(LowerStr(text), FALSE))), 80)

\* https://wagey.gg/jobs/<id>[-<slug>]?ref=github
jobUrl(job) ==
  [page |-> "jobs", id |-> Interpolate(job.id),
   slug |-> slugify(Interpolate(job.title) \o <<" ","a","t"," ">> \o Interpolate(job.company))]

\* https://wagey.gg/pricing?ref=github
PricingUrl == [page |-> "pricing"]

\* .replace(/\|/g, '\\|').replace(/\n/g, ' ')
RECURSIVE EscChars(_)
EscChars(s) ==
  IF s = <<>> THEN <<>>
  ELSE IF Head(s) = "|" THEN <<"\\", "|">> \o EscChars(Tail(s))
  ELSE IF Head(s) = "\n" THEN <<" ">> \o EscChars(Tail(s))
  ELSE <<Head(s)>> \o EscChars(Tail(s))

esc(str) == EscChars(OrEmpty(str))

\* (name || '').toLowerCase().replace(/[^a-z0-9]/g, '')
normalizeName(name) == SelectSeq(LowerStr(OrEmpty(name)), IsAlnumLower)

\* t.length > 40 ? t.slice(0, 37) + '...' : t
fmtRole(title) ==
  LET t == esc(title)
  IN IF Len(t) > 40 THEN slice(t, 37) \o <<".", ".", ".">> ELSE t

\* String(n) of a natural number: its decimal digits
RECURSIVE Decimal(_)
Decimal(n) == IF n < 10 THEN <<Digits[n + 1]>> ELSE Decimal(n \div 10) \o <<Digits[(n % 10) + 1]>>

\* the character U+2013 of the range template
EnDash == "&ndash;"

\* $<n>, or $<round(n / 1000)>k from 1000 on
fmtK(n) ==
  IF n >= 1000
    THEN [amount |-> (n + 500) \div 1000, unit |-> "k",
          text |-> <<"$">> \o Decimal((n + 500) \div 1000) \o <<"k">>]
  ELSE [amount |-> n, unit |-> "", text |-> <<"$">> \o Decimal(n)]

PerYear == <<"/","y","e","a","r">>

\* a salary cell that prefers the free-text salary of the record
fmtSalary_TextFirst(job) ==
  IF Truthy(job.salary)
    THEN [form |-> "text", lo |-> fmtK(0), hi |-> fmtK(0), text |-> trim(job.salary)]
  ELSE [form |-> "none", lo |-> fmtK(0), hi |-> fmtK(0), text |-> <<>>]

\* the salary cell: "" (form "none"), "$a/year", "$a-$b/year", "$a+/year"
fmtSalary(job) ==
  IF job.salaryMin # 0 /\ job.salaryMax # 0 /\ job.salaryMin = job.salaryMax
    THEN [form |-> "one", lo |-> fmtK(job.salaryMin), hi |-> fmtK(job.salaryMin),
          text |-> fmtK(job.salaryMin).text \o PerYear]
  ELSE IF job.salaryMin # 0 /\ job.salaryMax # 0
    THEN [form |-> "range", lo |-> fmtK(job.salaryMin), hi |-> fmtK(job.salaryMax),
          text |-> fmtK(job.salaryMin).text \o <<EnDash>> \o fmtK(job.salaryMax).text
                   \o PerYear]
  ELSE IF job.salaryMin # 0
    THEN [form |-> "plus", lo |-> fmtK(job.salaryMin), hi |-> fmtK(job.salaryMin),
          text |-> fmtK(job.salaryMin).text \o <<"+">> \o PerYear]
  ELSE IF job.salaryMax # 0
    THEN [form |-> "one", lo |-> fmtK(job.salaryMax), hi |-> fmtK(job.salaryMax),
          text |-> fmtK(job.salaryMax).text \o PerYear]
  ELSE [form |-> "none", lo |-> fmtK(0), hi |-> fmtK(0), text |-> <<>>]

\* an age cell that rounds the hours to the nearest instead of down
fmtAge_Rounded(scrapedAt, t) ==
  LET hours == (t - scrapedAt + HOUR \div 2) \div HOUR
  IN IF scrapedAt = 0 THEN [n |-> 0, unit |-> ""]
     ELSE IF hours < 1 THEN [n |-> 0, unit |-> "<1h"]
     ELSE IF hours < 24 THEN [n |-> hours, unit |-> "h"]
     ELSE [n |-> hours \div 24, unit |-> "d"]

\* the age cell at clock reading t: "", "<1h", "<n>h", "1d", "<n>d"
fmtAge(scrapedAt, t) ==
  LET ms == t - scrapedAt
      hours == ms \div HOUR      \* Math.floor: \div rounds down
      days == hours \div 24
  IN IF scrapedAt = 0 THEN [n |-> 0, unit |-> ""]
     ELSE IF hours < 1 THEN [n |-> 0, unit |-> "<1h"]
     ELSE IF hours < 24 THEN [n |-> hours, unit |-> "h"]
     ELSE [n |-> days, unit |-> "d"]

\* fmtDateTime: d-Mon-YYYY HH:MM UTC, the minute of the instant
fmtDateTime(t) == [minute |-> t \div 60000]

\* the title hash of teaserMask, a 32-bit integer kept as two 16-bit halves:
\* h = ((h << 5) - h + s.charCodeAt(i)) | 0
RECURSIVE Hash32(_, _, _)
Hash32(s, hi, lo) ==
  IF s = <<>> THEN [hi |-> hi, lo |-> lo]
  ELSE LET low == 31 * lo + charCodeAt(Head(s))
       IN Hash32(Tail(s), (31 * hi + low \div 65536) % 65536, low % 65536)

\* Math.abs(h) % 9 for the 32-bit two's-complement h = hi * 2^16 + lo
\* (2^16 = 7 and 2^32 = 4 modulo 9)
AbsMod9(h) ==
  LET u == (7 * h.hi + h.lo) % 9
  IN IF h.hi >= 32768 THEN (4 - u + 9) % 9 ELSE u

\* the number of blocks of the mask: 4 to 12
teaserMask(job) ==
  LET s == IF Truthy(job.title) THEN job.title
           ELSE IF Truthy(job.id) THEN job.id ELSE <<>>
  IN 4 + AbsMod9(Hash32(s, 0, 0))

\* the company cell of a record shown in full: logo and name
companyCell(job, logos) ==
  LET normalized == normalizeName(job.company)
  IN [kind |-> "logo",
      logo |-> IF normalized \in DOMAIN logos THEN logos[normalized] ELSE "_placeholder",
      name |-> slice(esc(job.company), 25),
      blocks |-> 0]

\* a mask whose length is hashed from the company name
maskCell_ByCompany(job) ==
  [kind |-> "mask", logo |-> "", name |-> <<>>,
   blocks |-> 4 + AbsMod9(Hash32(OrEmpty(job.company), 0, 0))]

\* the company cell of a teaser: the lock and the mask
maskCell(job) == [kind |-> "mask", logo |-> "", name |-> <<>>, blocks |-> teaserMask(job)]

\* an apply cell that links every record directly
applyCell_Direct(job) == [label |-> "Apply", href |-> jobUrl(job)]

applyCell(job) ==
  IF job.visibility = "teaser"
  THEN [label |-> "Pro", href |-> PricingUrl]
  ELSE [label |-> "Apply", href |-> jobUrl(job)]

----------------------------------------------------------------------------
(* Sorting and the job table *)

\* the sign of a comparator's result; the sort reads NaN as 0
Sign(n) == IF n < 0 THEN -1 ELSE IF n > 0 THEN 1 ELSE 0

\* new Date(b.scrapedAt).getTime() - new Date(a.scrapedAt).getTime():
\* NaN when either time is absent
compareFresh(a, b) ==
  IF a.scrapedAt = 0 \/ b.scrapedAt = 0 THEN 0 ELSE Sign(b.scrapedAt - a.scrapedAt)

\* the comparator of the freshness policy without its minus sign read right
compareFresh_Ascending(a, b) ==
  IF a.scrapedAt = 0 \/ b.scrapedAt = 0 THEN 0 ELSE Sign(a.scrapedAt - b.scrapedAt)

\* salarySort of the salary-first revision: the salary capped at $600k
salarySort(job) ==
  LET v == IF job.salaryMax # 0 THEN job.salaryMax ELSE job.salaryMin
  IN IF v > 600000 THEN 0 ELSE v

\* the comparator of the salary-first revision
compareSalaryFirst(a, b) ==
  LET aSal == salarySort(a)
      bSal == salarySort(b)
  IN IF aSal # 0 /\ bSal = 0 THEN -1
     ELSE IF aSal = 0 /\ bSal # 0 THEN 1
     ELSE IF aSal # bSal THEN Sign(bSal - aSal)
     ELSE compareFresh(a, b)

\* comparefn(a, b) under a sort policy
Compare(policy, a, b) ==
  IF policy = "salary" THEN compareSalaryFirst(a, b) ELSE compareFresh(a, b)

Reverse(a) == [i \in 1..Len(a) |-> a[Len(a) + 1 - i]]

\* Array.prototype.sort as the engine runs it (V8's TimSort).  First the
\* initial run: the longest prefix that is ascending (order >= 0 between
\* neighbours) or strictly descending; a descending run is reversed.
IsDescending(policy, a) == Compare(policy, a[2], a[1]) < 0

RunLength(policy, a) ==
  LET desc == IsDescending(policy, a)
      breaks == {i \in 3..Len(a) :
                   LET order == Compare(policy, a[i], a[i - 1])
                   IN IF desc THEN order >= 0 ELSE order < 0}
  IN IF breaks = {} THEN Len(a)
     ELSE (CHOOSE i \in breaks : \A k \in breaks : i <= k) - 1

MakeRun(policy, a) ==
  LET n == RunLength(policy, a)
  IN IF IsDescending(policy, a)
     THEN Reverse(SubSeq(a, 1, n)) \o SubSeq(a, n + 1, Len(a))
     ELSE a

\* the binary search of the insertion point of pivot in a[left..right-1]
\* (indices from 0, as in the engine)
RECURSIVE BinarySearch(_, _, _, _, _)
BinarySearch(policy, a, pivot, left, right) ==
  IF left >= right THEN left
  ELSE LET mid == left + ((right - left) \div 2)
       IN IF Compare(policy, pivot, a[mid + 1]) < 0
          THEN BinarySearch(policy, a, pivot, left, mid)
          ELSE BinarySearch(policy, a, pivot, mid + 1, right)

\* a[start] put in its place among a[0..start-1]
InsertAt(policy, a, start) ==
  LET pivot == a[start + 1]
      left == BinarySearch(policy, a, pivot, 0, start)
  IN SubSeq(a, 1, left) \o <<pivot>> \o SubSeq(a, left + 1, start)
       \o SubSeq(a, start + 2, Len(a))

\* the elements a[lo..hi] inserted one after the other
RECURSIVE InsertRange(_, _, _, _)
InsertRange(policy, a, lo, hi) ==
  IF Len(a) < 2 \/ lo > hi THEN a
  ELSE IF lo = hi THEN InsertAt(policy, a, lo)
  ELSE LET mid == (lo + hi) \div 2
       IN InsertRange(policy, InsertRange(policy, a, lo, mid), mid + 1, hi)

\* The binary insertion sort that follows the initial run.  This is all the
\* engine does on fewer than 64 elements; on more it merges runs, which
\* gives the same array whenever the comparator orders the elements
\* consistently (the sort is stable), and it does nothing more when the
\* initial run is the whole array.
TimSort(policy, a) ==
  IF Len(a) < 2 THEN a
  ELSE InsertRange(policy, MakeRun(policy, a), RunLength(policy, a), Len(a) - 1)

\* [...jobs].sort(...): a copy, most recently scraped first
sortJobs(js) == TimSort("fresh", js)

\* sortJobs of the salary-first revision
sortJobsSalaryFirst(js) == TimSort("salary", js)

\* the default of jobTable's limit
LIMIT == 500

W_unknown == <<"u","n","k","n","o","w","n">>

\* /^unknown/i.test(s)
StartsUnknown(s) ==
  /\ Len(s) >= Len(W_unknown)
  /\ \A i \in DOMAIN W_unknown : Canonicalize(s[i]) = Canonicalize(W_unknown[i])

\* the location shown under the role
locPart(job) ==
  LET rawLoc == trim(OrEmpty(job.location))
  IN IF rawLoc = <<>> \/ StartsUnknown(rawLoc) THEN <<>> ELSE slice(esc(rawLoc), 35)

\* one row of the table: | company | role | salary | age | link |
tableRow(job, logos, t) ==
  [company |-> IF job.visibility = "teaser" THEN maskCell(job) ELSE companyCell(job, logos),
   role |-> [title |-> fmtRole(job.title),
             remote |-> IsRemote(job),
             loc |-> locPart(job),
             region |-> IF job.region \in {UndefVal, ""} THEN "?" ELSE job.region],
   salary |-> fmtSalary(job),
   age |-> fmtAge(job.scrapedAt, t),
   link |-> applyCell(job)]

\* the rows of jobTable; no row stands for '*No jobs currently listed.*'
jobTable(js, logos, limit, t) ==
  LET sorted == slice(sortJobs(js), limit)
  IN [i \in DOMAIN sorted |-> tableRow(sorted[i], logos, t)]

----------------------------------------------------------------------------
(* parseSkills *)

\* the characters the dot of a regular expression does not match
LineTerminators == {"\n", "\r"}

\* rest is empty or is (?:\([^)]+\)) up to the end of the text
IsAnnotationOrEmpty(rest) ==
  \/ rest = <<>>
  \/ /\ Len(rest) >= 3
     /\ rest[1] = "("
     /\ rest[Len(rest)] = ")"
     /\ \A k \in 2..(Len(rest) - 1) : rest[k] # ")"

\* the lengths group 1 of /^(.+?)(?:\([^)]+\))?$/ can take on t
NameLengths(t) ==
  {n \in 1..Len(t) :
     /\ \A k \in 1..n : t[k] \notin LineTerminators
     /\ IsAnnotationOrEmpty(SubSeq(t, n + 1, Len(t)))}

\* the callback of map: m ? m[1].trim() : s.trim(), the lazy group 1
\* taking as little as it can
skillName(entry) ==
  LET t == trim(entry)
  IN IF NameLengths(t) = {} THEN t
     ELSE trim(SubSeq(t, 1, CHOOSE n \in NameLengths(t) : \A k \in NameLengths(t) : n <= k))

parseSkills(str) ==
  IF ~Truthy(str) THEN <<>>
  ELSE LET entries == Split(str, ",")
       IN SelectSeq([k \in DOMAIN entries |-> skillName(entries[k])], LAMBDA e : e # <<>>)

----------------------------------------------------------------------------
(* The export *)

\* one entry of data/jobs.json
dataEntry(j) ==
  LET isTeaser == j.visibility = "teaser"
  IN [id |-> j.id,
      title |-> j.title,
      company |-> IF isTeaser THEN NullStr ELSE j.company,
      region |-> j.region,
      salary |-> fmtSalary(j),
      salaryMin |-> j.salaryMin,
      salaryMax |-> j.salaryMax,
      verifiedAt |-> j.verifiedAt,
      scrapedAt |-> j.scrapedAt,
      skills |-> parseSkills(j.skills),
      url |-> IF isTeaser THEN Null ELSE jobUrl(j),
      visibility |-> IF j.visibility = UndefVal THEN "full" ELSE j.visibility]

\* an export that leaves out the records with a noise title
buildDataJson_NoNoise(js) ==
  LET kept == SelectSeq(js, LAMBDA j : ~isGarbageJob(j))
  IN [i \in DOMAIN kept |-> dataEntry(kept[i])]

buildDataJson(js) == [i \in DOMAIN js |-> dataEntry(js[i])]

----------------------------------------------------------------------------
(* The update history: the git logs of the three repositories *)

\* \d and \w
Digit == Range(Digits)
WordChar == Range(LowerAlpha) \cup Range(UpperAlpha) \cup Digit \cup {"_"}

\* one character of a class, and a literal text, without the i flag
Cls(S) == [t |-> "cls", set |-> S]
Str(w) == [i \in DOMAIN w |-> Cls({w[i]})]

\* the positions at which a match of the pattern p that starts at position i
\* of s can end (the position after its last character)
RECURSIVE MatchFrom(_, _, _)
MatchFrom(p, s, i) ==
  IF p = <<>> THEN {i}
  ELSE LET e == Head(p)
           r == Tail(p)
       IN CASE e.t = "cls" ->
                 IF i <= Len(s) /\ s[i] \in e.set THEN MatchFrom(r, s, i + 1) ELSE {}
            [] e.t = "ws" ->
                 IF i <= Len(s) /\ IsSpace(s[i])
                 THEN MatchFrom(r, s, i + 1) \cup MatchFrom(p, s, i + 1)
                 ELSE {}
            [] e.t = "alt" ->
                 UNION {MatchFrom(e.alts[k] \o r, s, i) : k \in DOMAIN e.alts}

Least(S) == CHOOSE x \in S : \A y \in S : x <= y
Greatest(S) == CHOOSE x \in S : \A y \in S : x >= y

W_UTC == <<"U","T","C">>
W_jobs == <<"j","o","b","s">>
W_EMEA_ == <<"E","M","E","A"," ">>
W_APAC_ == <<"A","P","A","C"," ">>

\* /(\d{1,2}-\w{3}-\d{4}\s+\d{2}:\d{2}\s+UTC)/
TimestampPattern ==
  << Cls(Digit), Alt(<< <<Cls(Digit)>>, <<>> >>), Cls({"-"}),
     Cls(WordChar), Cls(WordChar), Cls(WordChar), Cls({"-"}),
     Cls(Digit), Cls(Digit), Cls(Digit), Cls(Digit), Ws,
     Cls(Digit), Cls(Digit), Cls({":"}), Cls(Digit), Cls(Digit), Ws >>
  \o Str(W_UTC)

\* message.match(TimestampPattern): the text of the leftmost match, or null
extractTimestamp(message) ==
  LET starts == {i \in DOMAIN message : MatchFrom(TimestampPattern, message, i) # {}}
  IN IF starts = {} THEN NullStr
     ELSE LET from == Least(starts)
          IN SubSeq(message, from, Greatest(MatchFrom(TimestampPattern, message, from)) - 1)

\* what follows the count in /([\d,]+)\s+(EMEA |APAC )?jobs/
CountTail == <<Ws, Alt(<<Str(W_EMEA_), Str(W_APAC_), <<>> >>)>> \o Str(W_jobs)

\* the lengths [\d,]+ can take at position i of s so that the rest matches
CountLengths(s, i) ==
  {n \in 1..(Len(s) - i + 1) :
     /\ \A k \in i..(i + n - 1) : s[k] \in Digit \cup {","}
     /\ MatchFrom(CountTail, s, i + n) # {}}

\* message.match(/([\d,]+)\s+(EMEA |APAC )?jobs/): group 1 of the leftmost
\* match, the quantifier taking as much as it can, or null
extractJobCount(message) ==
  LET starts == {i \in DOMAIN message : CountLengths(message, i) # {}}
  IN IF starts = {} THEN NullStr
     ELSE LET from == Least(starts)
          IN SubSeq(message, from, from + Greatest(CountLengths(message, from)) - 1)

\* a log line read as three fields, the subject ending at its first '|'
parseLogLine_ThreeFields(line) ==
  LET parts == Split(line, "|")
  IN [hash |-> parts[1],
      date |-> IF Len(parts) >= 2 THEN parts[2] ELSE Undef,
      message |-> IF Len(parts) >= 3 THEN parts[3] ELSE <<>>]

\* one line "hash|date|subject" of the log: line.split('|'), the subject
\* put together again
parseLogLine(line) ==
  LET parts == Split(line, "|")
  IN [hash |-> parts[1],
      date |-> IF Len(parts) >= 2 THEN parts[2] ELSE Undef,
      message |-> Join(SubSeq(parts, 3, Len(parts)), "|")]

\* readGitLog that reads whatever the command printed, failed or not
readGitLog_NoCatch(repo) ==
  LET raw == trim(repo.out)
  IN IF raw = <<>> THEN <<>>
     ELSE LET lines == Split(raw, "\n")
          IN [k \in DOMAIN lines |-> parseLogLine(lines[k])]

\* readGitLog on a repository whose git log command ends well (ok) with the
\* output out, or throws (not a repository, a timeout): the catch gives []
readGitLog(repo) ==
  IF ~repo.ok THEN <<>>
  ELSE LET raw == trim(repo.out)
       IN IF raw = <<>> THEN <<>>
          ELSE LET lines == Split(raw, "\n")
               IN [k \in DOMAIN lines |-> parseLogLine(lines[k])]

\* the Map of a secondary log by timestamp: a later entry of the log
\* replaces an earlier one with the same timestamp
indexByTs(entries) ==
  LET stamped == {k \in DOMAIN entries : extractTimestamp(entries[k].message) # NullStr}
  IN [ts \in {extractTimestamp(entries[k].message) : k \in stamped} |->
        entries[Greatest({k \in stamped : extractTimestamp(entries[k].message) = ts})]]

\* a cell "[hash7](.../commit/hash) count", and the cell of no entry
commitCell(entry, count) ==
  [kind |-> "commit", short |-> slice(entry.hash, 7), hash |-> entry.hash, count |-> count]
Placeholder == [kind |-> "none", short |-> <<>>, hash |-> <<>>, count |-> <<>>]

\* the EMEA or APAC cell of the row of timestamp ts
secondaryCell(byTs, ts) ==
  IF ts \in DOMAIN byTs
  THEN LET count == extractJobCount(byTs[ts].message)
       IN commitCell(byTs[ts], IF Truthy(count) THEN count ELSE <<"?">>)
  ELSE Placeholder

\* a row for every entry that carries a timestamp
isDataCommit_TimestampOnly(entry) == Truthy(extractTimestamp(entry.message))

\* !(!ts || !mainJobs): the entry is a publication, not a code change
isDataCommit(entry) ==
  Truthy(extractTimestamp(entry.message)) /\ Truthy(extractJobCount(entry.message))

\* buildHistoryTable: the rows of the table; none stands for ''
buildHistoryTable(logs) ==
  LET mainLog == readGitLog(logs.main)
      emeaByTs == indexByTs(readGitLog(logs.emea))
      apacByTs == indexByTs(readGitLog(logs.apac))
      data == SelectSeq(mainLog, isDataCommit)
  IN [k \in DOMAIN data |->
        LET ts == extractTimestamp(data[k].message)
        IN [ts |-> ts,
            main |-> commitCell(data[k], extractJobCount(data[k].message)),
            emea |-> secondaryCell(emeaByTs, ts),
            apac |-> secondaryCell(apacByTs, ts)]]

\* a command that ended well with the lines given, and one that failed
\* after printing them
LogOf(lines) == [ok |-> TRUE, out |-> Join(lines, "\n") \o (IF lines = <<>> THEN <<>> ELSE <<"\n">>)]
Unreadable(lines) == [ok |-> FALSE, out |-> Join(lines, "\n")]

\* lines of the three logs (the em dash of the summary lines is written --)
L_Main1 == <<"a","1","b","2","c","3","d","4","e","5","|","D","1","|","1",
  "2"," ","j","o","b","s"," ","|"," ","3"," ","w","i","t","h"," ","s","a",
  "l","a","r","y"," ","-","-"," ","2","6","-","F","e","b","-","2","0","2",
  "6"," ","0","4",":","3","5"," ","U","T","C">>
L_Main2 == <<"b","2","|","D","2","|","1",",","0","0","9"," ","j","o","b",
  "s"," ","-","-"," ","2","6","-","F","e","b","-","2","0","2","6"," ","0",
  "3",":","3","5"," ","U","T","C">>
L_MainCode == <<"c","3","|","D","3","|","f","i","x"," ","t","y","p","o"," ",
  "i","n"," ","2"," ","j","o","b","s"," ","t","a","b","l","e">>
L_MainStampOnly == <<"d","4","|","D","4","|","r","e","p","u","b","l","i",
  "s","h"," ","-","-"," ","1","-","M","a","r","-","2","0","2","6"," ","0",
  "5",":","0","0"," ","U","T","C">>
L_Emea1 == <<"e","5","|","D","1","|","4"," ","E","M","E","A"," ","j","o",
  "b","s"," ","|"," ","1"," ","w","i","t","h"," ","s","a","l","a","r","y",
  " ","-","-"," ","2","6","-","F","e","b","-","2","0","2","6"," ","0","4",
  ":","3","5"," ","U","T","C">>
L_EmeaAlone == <<"e","6","|","D","5","|","2"," ","E","M","E","A"," ","j",
  "o","b","s"," ","-","-"," ","2","5","-","F","e","b","-","2","0","2","6",
  " ","0","1",":","0","0"," ","U","T","C">>
L_EmeaNoCount == <<"e","7","|","D","2","|","r","e","f","r","e","s","h"," ",
  "-","-"," ","2","6","-","F","e","b","-","2","0","2","6"," ","0","3",":",
  "3","5"," ","U","T","C">>
L_Apac1 == <<"f","8","|","D","1","|","5"," ","A","P","A","C"," ","j","o",
  "b","s"," ","-","-"," ","2","6","-","F","e","b","-","2","0","2","6"," ",
  "0","4",":","3","5"," ","U","T","C">>
L_Apac1Again == <<"f","9","|","D","1","|","6"," ","A","P","A","C"," ","j",
  "o","b","s"," ","-","-"," ","2","6","-","F","e","b","-","2","0","2","6",
  " "," ","0","4",":","3","5"," ","U","T","C">>
L_Apac1Dup == <<"f","a","|","D","1","|","7"," ","A","P","A","C"," ","j","o",
  "b","s"," ","-","-"," ","2","6","-","F","e","b","-","2","0","2","6"," ",
  "0","4",":","3","5"," ","U","T","C">>

\* the logs of a run of the other specifications
SampleLogs ==
  [main |-> LogOf(<<L_Main1, L_MainCode>>),
   emea |-> LogOf(<<L_Emea1>>),
   apac |-> Unreadable(<<>>)]

----------------------------------------------------------------------------
(* The documents and the summary lines *)

\* j.salaryMin || j.salaryMax || j.salary
HasSalary(j) == j.salaryMin # 0 \/ j.salaryMax # 0 \/ Truthy(j.salary)

IsVerified(j) == j.verifiedAt # 0
IsTeaser(j) == j.visibility = "teaser"

\* the counts of one row of a region table
countsRow(js) ==
  [jobs |-> Len(js), sal |-> Len(SelectSeq(js, HasSalary)), ver |-> Len(SelectSeq(js, IsVerified))]

\* a region section: the count in its heading and its table
section(js, logos, t) == [count |-> Len(js), table |-> jobTable(js, logos, LIMIT, t)]

\* the main document
mainReadme(g, allJobs, logos, history, t) ==
  [kind |-> "readme",
   history |-> history,
   regionRows |-> [c \in RegionCodes |-> countsRow(g.bucket[c])],
   total |-> countsRow(allJobs),
   asOf |-> fmtDateTime(t),
   sections |-> [c \in {"WW", "NA", "LATAM"} |-> section(g.bucket[c], logos, t)],
   others |-> [c \in {"EMEA", "APAC"} |-> Len(g.bucket[c])]]

\* the document of a secondary target
regionReadme(code, js, g, logos, history, t) ==
  [kind |-> "readme",
   history |-> history,
   regionRows |-> [c \in {code} |-> countsRow(js)],
   total |-> countsRow(js),
   asOf |-> fmtDateTime(t),
   sections |-> [c \in {code} |-> section(js, logos, t)],
   others |-> [c \in {"EMEA", "APAC"} \ {code} |-> Len(g.bucket[c])]]

jsonFile(js) == [kind |-> "json", entries |-> buildDataJson(js)]

\* "<n> jobs | <n> with salary | <n> verified | <n> Pro teasers - <now>"
mainMsg(allJobs, t) ==
  [kind |-> "msg", label |-> "", jobs |-> Len(allJobs),
   sal |-> Len(SelectSeq(allJobs, HasSalary)), ver |-> Len(SelectSeq(allJobs, IsVerified)),
   teasers |-> Len(SelectSeq(allJobs, IsTeaser)), ts |-> fmtDateTime(t)]

\* "<n> EMEA jobs | <n> with salary | <n> verified - <now>"
regionMsg(code, js, t) ==
  [kind |-> "msg", label |-> code, jobs |-> Len(js),
   sal |-> Len(SelectSeq(js, HasSalary)), ver |-> Len(SelectSeq(js, IsVerified)),
   teasers |-> 0, ts |-> fmtDateTime(t)]

\* (meta && meta.companyLogos) || {}
logosOf(m) == m.companyLogos

Paths ==
  << "main/README.md", "main/data/jobs.json", "main/data/commit-msg.txt",
     "emea/README.md", "emea/data/jobs.json", "emea/data/commit-msg.txt",
     "apac/README.md", "apac/data/jobs.json", "apac/data/commit-msg.txt" >>

\* the content of the k-th writeFile call of main
output(k, g, allJobs, m, history, t) ==
  LET logos == logosOf(m)
      emea == g.bucket["EMEA"]
      apac == g.bucket["APAC"]
  IN CASE k = 1 -> mainReadme(g, allJobs, logos, history, t)
       [] k = 2 -> jsonFile(allJobs)
       [] k = 3 -> mainMsg(allJobs, t)
       [] k = 4 -> regionReadme("EMEA", emea, g, logos, history, t)
       [] k = 5 -> jsonFile(emea)
       [] k = 6 -> regionMsg("EMEA", emea, t)
       [] k = 7 -> regionReadme("APAC", apac, g, logos, history, t)
       [] k = 8 -> jsonFile(apac)
       [] k = 9 -> regionMsg("APAC", apac, t)

\* the nine writeFile calls of main, in order
outputs(g, allJobs, m, history, t) ==
  [k \in DOMAIN Paths |-> output(k, g, allJobs, m, history, t)]

\* dirname(path), and the directories mkdirSync(dir, {recursive: true}) makes
\* sure of: the directory and the ones above it
dirname(path) ==
  CASE path \in {"main/README.md"} -> "main"
    [] path \in {"main/data/jobs.json", "main/data/commit-msg.txt"} -> "main/data"
    [] path \in {"emea/README.md"} -> "emea"
    [] path \in {"emea/data/jobs.json", "emea/data/commit-msg.txt"} -> "emea/data"
    [] path \in {"apac/README.md"} -> "apac"
    [] path \in {"apac/data/jobs.json", "apac/data/commit-msg.txt"} -> "apac/data"
mkdirp(dir) ==
  CASE dir = "main/data" -> {"main", "main/data"}
    [] dir = "emea/data" -> {"emea", "emea/data"}
    [] dir = "apac/data" -> {"apac", "apac/data"}
    [] OTHER -> {dir}

\* writeFile without the DRY_RUN test
writeFile_IgnoresDryRun(disk, path, content, dry, outcome) ==
  IF outcome = "mkdir" THEN disk
  ELSE IF outcome = "write" THEN [disk EXCEPT !.dirs = @ \cup mkdirp(dirname(path))]
  ELSE [fs |-> [disk.fs EXCEPT ![path] = content],
        dirs |-> disk.dirs \cup mkdirp(dirname(path))]

\* writeFile(path, content) on the disk (files and directories): with
\* DRY_RUN it logs and returns; otherwise mkdirSync, then writeFileSync.
\* outcome says which call throws: "mkdir", "write", or none ("ok")
writeFile(disk, path, content, dry, outcome) ==
  IF dry THEN disk
  ELSE IF outcome = "mkdir" THEN disk
  ELSE IF outcome = "write" THEN [disk EXCEPT !.dirs = @ \cup mkdirp(dirname(path))]
  ELSE [fs |-> [disk.fs EXCEPT ![path] = content],
        dirs |-> disk.dirs \cup mkdirp(dirname(path))]

\* sortJobs that sorts the array it is given
sortJobsArgument_InPlace(js) == sortJobs(js)

\* the array passed to sortJobs, after the call: [...jobs] is a copy, the
\* argument stays as it was
sortJobsArgument(js) == js

\* the buckets the k-th document passes to jobTable, and so to sortJobs
renderedBy(k) ==
  CASE k = 1 -> {"WW", "NA", "LATAM"}
    [] k = 4 -> {"EMEA"}
    [] k = 7 -> {"APAC"}
    [] OTHER -> {}

\* main's groups after the k-th content has been built
afterRender(k, g) ==
  [g EXCEPT !.bucket = [c \in RegionCodes |->
      IF c \in renderedBy(k) THEN sortJobsArgument(g.bucket[c]) ELSE g.bucket[c]]]

\* a file no call of this run has written
Prior == [kind |-> "prior"]

----------------------------------------------------------------------------
(* The run *)

\* the lines a body is made of
LinePool == {BlankLine, BadLine, NullLine, DoneLine, MetaLine} \cup {JobLine(j) : j \in JobPool}

Bodies == SeqUpTo(LinePool, MaxLines)

InitRun ==
  /\ now = 100 * HOUR
  /\ pc = "fetch"
  /\ attempt = 1
  /\ log = <<>>
  /\ sleeps = <<>>
  /\ pending = 0
  /\ jobs = <<>>
  /\ meta = NoMeta
  /\ groups = EmptyGroups
  /\ calls = <<>>
  /\ fs = [p \in Range(Paths) |-> Prior]
  /\ dirs = {}
  /\ historyTable = <<>>
  /\ topJobs = <<>>
  /\ exitCode = -1
  /\ fatal = "none"

\* an endpoint that answers 200 with any body, in normal and in dry-run mode
Init ==
  /\ net \in {<<Http(200, b)>> : b \in Bodies}
  /\ dryRun \in BOOLEAN
  /\ gitLogs = SampleLogs
  /\ InitRun

\* jobs.length < 0 in place of jobs.length === 0
noJobs_Negative(js) == Len(js) < 0

\* jobs.length === 0, the empty-feed test of main
noJobs(js) == Len(js) = 0

\* fetch(url, ...) answers; the loop body of fetchJobs runs up to its
\* sleep, its return or its throw (main().catch then exits with status 1)
Attempt ==
  /\ pc = "fetch"
  /\ LET resp == Respond(attempt)
         out == fetchAttempt(resp, attempt)
     IN /\ log' = Append(log, resp)
        /\ IF out.t = "sleep"
           THEN /\ pc' = "sleep"
                /\ pending' = out.delay
                /\ UNCHANGED <<jobs, meta, exitCode, fatal>>
           ELSE IF out.t = "return"
           THEN /\ pc' = "fetched"
                /\ jobs' = out.jobs
                /\ meta' = out.meta
                /\ UNCHANGED <<pending, exitCode, fatal>>
           ELSE /\ pc' = "exit"
                /\ exitCode' = 1
                /\ fatal' = "fetch"
                /\ UNCHANGED <<pending, jobs, meta>>
  /\ UNCHANGED <<net, dryRun, now, attempt, sleeps, groups, calls, fs, dirs,
                 gitLogs, historyTable, topJobs>>

\* the timer of sleep(delay) fires: continue, attempt++, and the loop test;
\* a loop that ends returns undefined, which main cannot destructure
Sleep ==
  /\ pc = "sleep"
  /\ sleeps' = Append(sleeps, pending)
  /\ pending' = 0
  /\ attempt' = attempt + 1
  /\ IF attempt + 1 <= MAX_RETRIES
     THEN pc' = "fetch" /\ UNCHANGED <<exitCode, fatal>>
     ELSE pc' = "exit" /\ exitCode' = 1 /\ fatal' = "destructure"
  /\ UNCHANGED <<net, dryRun, now, log, jobs, meta, groups, calls, fs, dirs,
                 gitLogs, historyTable, topJobs>>

\* main from the return of fetchJobs to the first writeFile: the empty-feed
\* abort, groupByRegion and buildHistoryTable
Main ==
  /\ pc = "fetched"
  /\ IF noJobs(jobs)
     THEN /\ pc' = "exit" /\ exitCode' = 1 /\ fatal' = "empty"
          /\ UNCHANGED <<groups, historyTable>>
     ELSE LET g == groupByRegion(jobs)
          IN IF g.threw
             THEN /\ pc' = "exit" /\ exitCode' = 1 /\ fatal' = "group"
                  /\ UNCHANGED <<groups, historyTable>>
             ELSE /\ pc' = "write" /\ groups' = g
                  /\ historyTable' = buildHistoryTable(gitLogs)
                  /\ UNCHANGED <<exitCode, fatal>>
  /\ UNCHANGED <<net, dryRun, now, attempt, log, sleeps, pending, jobs, meta, calls,
                 fs, dirs, gitLogs, topJobs>>

\* the next writeFile call of main: its content is built (which sorts the
\* buckets it tabulates), then writeFile runs; outside dry-run mode
\* mkdirSync or writeFileSync may throw
WriteFile ==
  /\ pc = "write"
  /\ LET k == Len(calls) + 1
         path == Paths[k]
         content == output(k, groups, jobs, meta, historyTable, now)
     IN /\ calls' = Append(calls, [path |-> path, content |-> content])
        /\ groups' = afterRender(k, groups)
        /\ \E outcome \in IF dryRun THEN {"ok"} ELSE {"ok", "mkdir", "write"} :
             LET disk == writeFile([fs |-> fs, dirs |-> dirs], path, content, dryRun, outcome)
             IN /\ fs' = disk.fs
                /\ dirs' = disk.dirs
                /\ IF outcome = "ok"
                   THEN /\ IF k = Len(Paths)
                           THEN pc' = "done" /\ exitCode' = 0
                           ELSE pc' = "write" /\ UNCHANGED exitCode
                        /\ UNCHANGED fatal
                   ELSE pc' = "exit" /\ exitCode' = 1 /\ fatal' = "write"
  /\ UNCHANGED <<net, dryRun, now, attempt, log, sleeps, pending, jobs, meta,
                 gitLogs, historyTable, topJobs>>

Next == Attempt \/ Sleep \/ Main \/ WriteFile

Spec == Init /\ [][Next]_vars

----------------------------------------------------------------------------
(* The retry loop under every course of failures *)

j1 == CHOOSE j \in JobPool : j.id = S_j1
j4 == CHOOSE j \in JobPool : j.id = S_j4

\* a body with a line that is not JSON, after a well-formed one
MalformedBody == <<JobLine(j1), BadLine>>

\* the ways an attempt fails
Faults ==
  {NetErr, TimedOut, Http(503, <<>>), Http(429, <<>>), Http(404, <<>>),
   Http(200, MalformedBody)}

\* what the endpoint settles on: a failure, an empty feed or a feed
Finals == Faults \cup {Http(200, <<>>), Http(200, <<MetaLine, JobLine(j4)>>)}

InitFetch ==
  /\ net \in {p \o <<r>> : p \in SeqUpTo(Faults, MAX_RETRIES - 1), r \in Finals}
  /\ dryRun = FALSE
  /\ gitLogs = SampleLogs
  /\ InitRun

SpecFetch == InitFetch /\ [][Next]_vars

----------------------------------------------------------------------------
(* Properties of fetchJobs, checked under SpecFetch *)

\* the delays the documentation lists: 3s, 6s, 12s, 24s
ListedDelays == <<3000, 6000, 12000, 24000>>

IsStatus(r, S) == r.kind = "http" /\ r.status \in S

\* the first n responses received were all 503
All503(n) == Len(log) >= n /\ \A i \in 1..n : IsStatus(log[i], {503})

\* the loop of fetchJobs has ended by throwing to main
FetchThrew == pc = "exit" /\ fatal = "fetch"

\* the loop of fetchJobs has ended by returning {jobs, meta}
FetchReturned ==
  pc \in {"fetched", "write", "done"} \/ (pc = "exit" /\ fatal \in {"empty", "group", "write"})

\* the response the latest attempt received is being slept on, or has
\* been slept on and the next attempt is about to start
AwaitingRetry(k, d) ==
  /\ Len(log) = k
  /\ \/ pc = "sleep" /\ pending = d /\ attempt = k /\ Len(sleeps) = k - 1
     \/ pc = "fetch" /\ attempt = k + 1 /\ Len(sleeps) = k /\ sleeps[k] = d

\* C1: when all five attempts receive a 503, fetchJobs throws after exactly
\* five attempts, having slept four times, for 3s, 6s, 12s and 24s in that
\* order, one sleep between consecutive attempts and none after the fifth.
C1_ExhaustedAfterFiveAttempts ==
  /\ \A k \in 1..4 :
       (All503(k) /\ Len(log) = k) => AwaitingRetry(k, ListedDelays[k])
  /\ All503(5) =>
       /\ Len(log) = 5
       /\ FetchThrew
       /\ exitCode = 1
       /\ sleeps = ListedDelays
       /\ pending = 0

C1_Witness == All503(5) /\ FetchThrew /\ Len(sleeps) = 4

\* a status that is neither 2xx, nor 5xx, nor 429
NotRetryableStatus(r) ==
  r.kind = "http" /\ r.status \notin 200..299 /\ r.status \notin 500..599 /\ r.status # 429

\* the i-th response ended the fetch at once: fetchJobs threw on it, and no
\* sleep and no attempt followed it
FailedImmediatelyAt(i) ==
  /\ Len(log) = i
  /\ FetchThrew
  /\ Len(sleeps) = i - 1
  /\ pending = 0

\* C2: a response with a non-2xx status that is neither 5xx nor 429 (a 404),
\* on any attempt from 1 to 5, makes fetchJobs fail immediately: no sleep
\* and no further attempt follows that response.
C2_NonRetryableStatusFailsImmediately ==
  \A i \in DOMAIN log : NotRetryableStatus(log[i]) => FailedImmediatelyAt(i)

\* a 2xx response with a non-blank line that is not valid JSON
HasMalformedLine(r) ==
  /\ IsStatus(r, 200..299)
  /\ \E n \in DOMAIN r.body : r.body[n].kind = "bad"

\* C3: a 2xx response whose body has a non-blank line that is not valid JSON
\* makes fetchJobs fail on that attempt without a retry: no sleep and no
\* further attempt follows it, whatever the attempt number.
C3_MalformedLineFailsWithoutRetry ==
  \A i \in DOMAIN log : HasMalformedLine(log[i]) => FailedImmediatelyAt(i)

\* a transport failure, a per-attempt timeout, a 5xx status or a 429
RetryableFailure(r) ==
  r.kind \in {"neterr", "timeout"} \/ IsStatus(r, 500..599) \/ IsStatus(r, {429})

\* a 2xx response all of whose non-blank lines are JSON envelopes
WellFormed(r) ==
  /\ IsStatus(r, 200..299)
  /\ \A n \in DOMAIN r.body : r.body[n].kind \in {"blank", "obj"}

\* C4: every attempt k < 5 that ends in a transport failure, a timeout, a
\* 5xx or a 429 is followed by attempt k+1 after one sleep of 3000*2^(k-1)
\* ms; fetchJobs never makes more than 5 attempts; and the first attempt
\* that receives a well-formed 2xx response ends the fetch successfully,
\* with no later attempt.
C4_RetryableFailuresAreRetried ==
  /\ \A k \in DOMAIN log :
       (k < 5 /\ RetryableFailure(log[k])) =>
          /\ Len(sleeps) >= k => sleeps[k] = ListedDelays[k]
          /\ Len(log) = k => AwaitingRetry(k, ListedDelays[k])
  /\ Len(log) <= 5
  /\ attempt <= 5
  /\ Len(sleeps) \in {Len(log) - 1, Len(log)} \cup {0}
  /\ \A k \in DOMAIN log :
       WellFormed(log[k]) =>
          /\ Len(log) = k
          /\ FetchReturned
          /\ Len(sleeps) = k - 1
          /\ pending = 0

C4_Witness ==
  /\ Len(log) = 4
  /\ log[1].kind = "neterr"
  /\ log[2].kind = "timeout"
  /\ IsStatus(log[3], {429})
  /\ WellFormed(log[4])
  /\ FetchReturned
  /\ sleeps = <<3000, 6000, 12000>>

----------------------------------------------------------------------------
(* Properties of main, groupByRegion and the renderers, checked under Spec *)

AllPaths == Range(Paths)

\* groupByRegion has returned to main
Grouped == pc \in {"write", "done"} \/ (pc = "exit" /\ fatal = "write")

\* the records of the five buckets
Bucketed == UNION {Range(groups.bucket[c]) : c \in RegionCodes}

\* C5: when fetchJobs returns zero job records, main exits with a non-zero
\* status before any call to writeFile: no output file is written or
\* overwritten, in normal mode and in dry-run mode.
C5_EmptyFeedAbortsBeforeAnyWrite ==
  (FetchReturned /\ jobs = <<>>) =>
     /\ calls = <<>>
     /\ \A p \in AllPaths : fs[p] = Prior
     /\ pc \in {"fetched", "exit"}
     /\ pc = "exit" => (exitCode = 1 /\ fatal = "empty")

C5_Witness ==
  /\ pc = "exit" /\ fatal = "empty" /\ exitCode = 1
  /\ log[1].body # <<>>
  /\ ~dryRun

\* C6: at the end of a run in normal mode either all nine output files have
\* been written by this run or none has: a run that exits with a non-zero
\* status, a write failure included, leaves no target refreshed while
\* another is not.
C6_AllNineFilesOrNone ==
  (pc \in {"done", "exit"} /\ ~dryRun) =>
     \/ \A p \in AllPaths : fs[p] # Prior
     \/ \A p \in AllPaths : fs[p] = Prior

\* C7: after groupByRegion no record whose region is absent or 'WW' and
\* whose isRemote is false or absent is in any of the five buckets.
C7_NoNonRemoteWorldwideRecordInAnyBucket ==
  \A j \in Bucketed :
     ~(j.region \in {UndefVal, "WW"} /\ j.isRemote \in {"false", UndefVal})

C7_Witness ==
  /\ Grouped
  /\ \E i \in DOMAIN jobs : jobs[i].region = "WW" /\ jobs[i].isRemote = "false"
  /\ \E i \in DOMAIN jobs : jobs[i].region = UndefVal /\ jobs[i].isRemote = UndefVal
  /\ Bucketed = {}

\* the row of a teaser hides the company behind the mask and links to the
\* pricing page
MaskedRow(row, j) ==
  /\ row.company.kind = "mask"
  /\ row.company.blocks \in 4..12
  /\ row.company.name = <<>>
  /\ row.link.href = PricingUrl
  /\ row.link.href # jobUrl(j)

\* the export entry of a teaser carries null for the company and the url
RedactedEntry(e) == e.company = NullStr /\ e.url = Null

\* C8: for every record with visibility 'teaser', buildDataJson emits
\* company = null and url = null, and the row jobTable renders for it has
\* the lock mask as its company cell and a link to the pricing page as its
\* apply cell: neither holds the company name or the job URL.
C8_TeasersAreMaskedAndRedacted ==
  /\ \A i \in DOMAIN jobs :
       IsTeaser(jobs[i]) =>
          LET rows == jobTable(<<jobs[i]>>, logosOf(meta), LIMIT, now)
          IN /\ RedactedEntry(buildDataJson(jobs)[i])
             /\ Len(rows) = 1
             /\ MaskedRow(rows[1], jobs[i])
  /\ \A n \in DOMAIN calls :
       LET f == calls[n].content
       IN /\ f.kind = "json" =>
               \A k \in DOMAIN f.entries :
                  f.entries[k].visibility = "teaser" => RedactedEntry(f.entries[k])
          /\ f.kind = "readme" =>
               \A c \in DOMAIN f.sections :
                  LET shown == slice(sortJobs(groups.bucket[c]), LIMIT)
                      table == f.sections[c].table
                  IN /\ Len(table) = Len(shown)
                     /\ \A k \in DOMAIN table :
                          IsTeaser(shown[k]) => MaskedRow(table[k], shown[k])

C8_Witness ==
  /\ pc = "done" /\ ~dryRun
  /\ \E i \in DOMAIN jobs :
       /\ IsTeaser(jobs[i]) /\ Truthy(jobs[i].company) /\ jobs[i].region = "EMEA"
       /\ fs["emea/README.md"].sections["EMEA"].table[1].company.kind = "mask"
       /\ fs["emea/data/jobs.json"].entries[1].company = NullStr
       /\ fs["main/data/jobs.json"].entries[i].url = Null

\* the words of a text: its maximal runs of non-blank characters
RECURSIVE WordsOf(_, _)
WordsOf(s, word) ==
  IF s = <<>> THEN (IF word = <<>> THEN <<>> ELSE <<word>>)
  ELSE IF IsSpace(Head(s))
       THEN (IF word = <<>> THEN <<>> ELSE <<word>>) \o WordsOf(Tail(s), <<>>)
       ELSE WordsOf(Tail(s), Append(word, Head(s)))

OrPlural(w) == {w, w \o <<"s">>}

\* the generic non-job phrases, word by word and in lower case
NoisePhrases ==
  {<<c>> : c \in OrPlural(W_career)}
  \cup {<<W_job, o>> : o \in OrPlural(W_opening)}
  \cup {<<W_open, q>> : q \in OrPlural(W_position)}
  \cup {<<q>> : q \in OrPlural(W_position)}
  \cup {<<W_current, o>> : o \in OrPlural(W_opening)}
  \cup {<<W_current, W_job, o>> : o \in OrPlural(W_opening)}
  \cup {<<W_join, W_our, W_team>>}
  \cup {<<W_work, x, W_us>> : x \in {W_with, W_at, W_for}}

\* the trimmed title is, whatever its case, one of the phrases as a whole
IsNoiseTitle(title) ==
  Truthy(title) /\ WordsOf(LowerStr(title), <<>>) \in NoisePhrases

\* C9: after groupByRegion no bucket holds a record whose trimmed title is,
\* case-insensitively and as a whole string, one of the generic non-job
\* phrases; a record whose title only contains such a phrase, or whose
\* title is absent, is not dropped by the noise filter.
C9_NoiseTitlesAndOnlyThoseAreFiltered ==
  /\ \A j \in Bucketed : ~IsNoiseTitle(j.title)
  /\ \A i \in DOMAIN jobs :
       ~IsNoiseTitle(jobs[i].title) =>
          /\ ~isGarbageJob(jobs[i])
          /\ (Grouped /\ jobs[i].region \in RegionCodes \ {"WW"}) =>
                jobs[i] \in Range(groups.bucket[jobs[i].region])
          /\ (Grouped /\ jobs[i].region \in {"WW", "", UndefVal} /\ jobs[i].isRemote = "true") =>
                jobs[i] \in Range(groups.bucket["WW"])

C9_Witness ==
  /\ Grouped
  /\ \E i, k \in DOMAIN jobs :
       /\ IsNoiseTitle(jobs[i].title)
       /\ jobs[i].title # LowerStr(trim(jobs[i].title))
       /\ jobs[i].region \in RegionCodes
       /\ jobs[i] \notin Bucketed
       /\ Truthy(jobs[k].title)
       /\ Len(WordsOf(LowerStr(jobs[k].title), <<>>)) > 1
       /\ <<Head(WordsOf(LowerStr(jobs[k].title), <<>>))>> \in NoisePhrases
       /\ jobs[k] \in Bucketed

\* main has called groupByRegion
CalledGroupByRegion == Grouped \/ (pc = "exit" /\ fatal = "group")

\* C10: groupByRegion places a record whose region is a non-empty string
\* other than WW, EMEA, APAC, NA and LATAM into no bucket and goes on with
\* the remaining records: for every such region string the record is
\* silently dropped and the grouping completes.
C10_UnknownRegionIsDroppedSilently ==
  /\ \A j \in Bucketed : j.region \in RegionCodes \cup {"", UndefVal}
  /\ CalledGroupByRegion => Grouped

----------------------------------------------------------------------------
(* Feeds around the row limit of a table *)

\* the i-th record of a large feed: ids are distinct
BulkId(i) == <<"b">> \o [d \in 1..3 |-> Digits[((i \div (10 ^ (3 - d))) % 10) + 1]]

\* how the collection times of a large feed run: from the newest record to
\* the oldest, from the oldest to the newest, or absent except on the first
\* record (an old one) and the last (the newest)
Shapes == {"newestFirst", "oldestFirst", "gap"}

BulkScrapedAt(i, n, shape) ==
  CASE shape = "newestFirst" -> (n + 1 - i) * (HOUR \div 60)
    [] shape = "oldestFirst" -> i * (HOUR \div 60)
    [] shape = "gap" -> IF i = 1 THEN HOUR \div 60
                        ELSE IF i = n THEN n * (HOUR \div 60) ELSE 0

BulkJob(i, n, region, shape) ==
  Job(BulkId(i), S_Dev, S_Acme, region, "true", "full", 0, 0, BulkScrapedAt(i, n, shape))

BulkBody(n, region, shape) == [i \in 1..n |-> JobLine(BulkJob(i, n, region, shape))]

\* a feed of one record less than the limit up to BulkOver more, all for one
\* region; the endpoint may fail once before it answers
InitBulk ==
  /\ \E n \in (LIMIT - 1)..(LIMIT + BulkOver), region \in {"NA", "EMEA"}, shape \in Shapes,
        first \in {<<>>, <<Http(503, <<>>)>>} :
       net = first \o <<Http(200, BulkBody(n, region, shape))>>
  /\ dryRun \in BOOLEAN
  /\ gitLogs = SampleLogs
  /\ InitRun

SpecBulk == InitBulk /\ [][Next]_vars

----------------------------------------------------------------------------
(* Properties of the counts and the row limit, checked under SpecBulk *)

\* the documents written so far
Documents == {calls[i].content : i \in {k \in DOMAIN calls : calls[k].content.kind = "readme"}}

\* C11: in every generated document each job count quoted in a heading
\* equals the number of job rows rendered under it: the count of each region
\* section heading of the main document and the Jobs figure of a regional
\* document equal the number of rows of the table of that section, for
\* buckets of every size.
C11_QuotedCountsEqualRowsRendered ==
  \A doc \in Documents :
    \A c \in DOMAIN doc.sections :
      IF c \in {"WW", "NA", "LATAM"}
      THEN doc.sections[c].count = Len(doc.sections[c].table)
      ELSE doc.total.jobs = Len(doc.sections[c].table)

\* scrapedAt of a is later than scrapedAt of b, both being present
MoreRecent(a, b) == a.scrapedAt # 0 /\ b.scrapedAt # 0 /\ a.scrapedAt > b.scrapedAt

\* the records of bucket c that have a row in the table of doc
Rendered(doc, c) ==
  {j \in Range(groups.bucket[c]) :
     tableRow(j, logosOf(meta), now) \in Range(doc.sections[c].table)}

\* C13: jobTable never renders more than 500 job rows for a section,
\* whatever the size of the bucket; for a bucket of more than 500 records it
\* renders the 500 records with the most recent scrapedAt and leaves out the
\* others: no record left out is more recent than a record rendered.
C13_TableShowsThe500MostRecent ==
  \A doc \in Documents :
    \A c \in DOMAIN doc.sections :
      LET table == doc.sections[c].table
          bucket == groups.bucket[c]
      IN /\ Len(table) <= 500
         /\ Len(bucket) > 500 =>
              /\ Len(table) = 500
              /\ \A o \in Range(bucket) \ Rendered(doc, c) :
                   \A r \in Rendered(doc, c) : ~MoreRecent(o, r)

----------------------------------------------------------------------------
(* The With Salary figure, checked under Spec *)

\* the rows of a table whose salary cell is not empty
WithSalaryCell(table) == SelectSeq(table, LAMBDA row : row.salary.form # "none")

\* C12: for every region bucket, the With Salary count quoted for it in a
\* document equals the number of rows rendered in that region's table whose
\* salary cell is non-empty.
C12_WithSalaryCountEqualsSalaryCells ==
  \A doc \in Documents :
    \A c \in DOMAIN doc.sections :
      doc.regionRows[c].sal = Len(WithSalaryCell(doc.sections[c].table))

----------------------------------------------------------------------------
(* The update history under every combination of logs *)

\* the entries the log of the primary target may hold: publications, a code
\* change that mentions jobs, a commit with a timestamp and no count
MainLines == {L_Main1, L_Main2, L_MainCode, L_MainStampOnly}

\* the primary log: of up to MaxLogLen entries, or unreadable
MainLogs ==
  {LogOf(l) : l \in SeqUpTo(MainLines, MaxLogLen)} \cup
  {Unreadable(l) : l \in SeqUpTo(MainLines, 1)}

\* the logs of the secondary targets: empty, unreadable, with an entry no
\* primary entry matches, with an entry without a count, with two entries of
\* one timestamp
EmeaLogs ==
  {Unreadable(<<L_Emea1>>), LogOf(<<L_Emea1>>),
   LogOf(<<L_EmeaAlone, L_Emea1>>), LogOf(<<L_EmeaNoCount, L_EmeaAlone>>)}
ApacLogs ==
  {LogOf(<<>>), Unreadable(<<L_Apac1>>),
   LogOf(<<L_Apac1, L_Apac1Dup>>), LogOf(<<L_Apac1Dup, L_Apac1Again, L_Apac1>>)}

\* a feed of two records, under every combination of logs; with the sample
\* logs the endpoint may fail once before it answers
InitHistory ==
  /\ \/ /\ gitLogs \in {[main |-> m, emea |-> e, apac |-> a] :
                          m \in MainLogs, e \in EmeaLogs, a \in ApacLogs}
        /\ net = <<Http(200, <<MetaLine, JobLine(j1), JobLine(j4)>>)>>
     \/ /\ gitLogs = SampleLogs
        /\ net = <<Http(503, <<>>), Http(200, <<MetaLine, JobLine(j1), JobLine(j4)>>)>>
  /\ dryRun = FALSE
  /\ InitRun

SpecHistory == InitHistory /\ [][Next]_vars

----------------------------------------------------------------------------
(* Properties of the update history, checked under SpecHistory *)

\* main has called buildHistoryTable
BuiltHistory == pc \in {"write", "done"} \/ (pc = "exit" /\ fatal = "write")

\* the entries of the log of a target, as readGitLog gives them
EntriesOf(target) == readGitLog(gitLogs[target])

\* an entry that carries a timestamp and a job count
IsPublication(e) ==
  extractTimestamp(e.message) # NullStr /\ extractJobCount(e.message) # NullStr

\* the entries among es with the timestamp ts
SameStamp(es, ts) == {e \in Range(es) : extractTimestamp(e.message) = ts}

\* the cell shows one of the entries es, or the placeholder when there is none
ShowsOneOf(cell, es) ==
  IF es = {} THEN cell.kind = "none"
  ELSE /\ cell.kind = "commit"
       /\ \E e \in es :
            /\ cell.hash = e.hash
            /\ cell.short = [i \in 1..(IF Len(e.hash) < 7 THEN Len(e.hash) ELSE 7) |-> e.hash[i]]

\* C14: buildHistoryTable emits one row for each publication event of the
\* primary target's log (an entry carrying a timestamp and a job count), in
\* the order of that log; the EMEA or APAC cell of a row shows the entry of
\* that target whose extracted timestamp is identical to the primary
\* entry's, and the placeholder when that target's log has no such entry; a
\* secondary entry whose timestamp matches no primary entry produces no row.
C14_OneRowPerPrimaryPublication ==
  BuiltHistory =>
    LET events == SelectSeq(EntriesOf("main"), IsPublication)
        emea == EntriesOf("emea")
        apac == EntriesOf("apac")
    IN /\ Len(historyTable) = Len(events)
       /\ \A k \in DOMAIN historyTable :
            LET row == historyTable[k]
            IN /\ k \in DOMAIN events
               /\ row.ts = extractTimestamp(events[k].message)
               /\ row.main.kind = "commit"
               /\ row.main.hash = events[k].hash
               /\ row.main.count = extractJobCount(events[k].message)
               /\ ShowsOneOf(row.emea, SameStamp(emea, row.ts))
               /\ ShowsOneOf(row.apac, SameStamp(apac, row.ts))

\* two publications and a commit that is none in the primary log; a row with
\* an EMEA entry and the APAC placeholder; an EMEA entry that matches no row
C14_Witness ==
  /\ BuiltHistory
  /\ Len(historyTable) = 2
  /\ Len(EntriesOf("main")) > 2 \/ Len(EntriesOf("apac")) > 2
  /\ \E k \in DOMAIN historyTable :
       historyTable[k].emea.kind = "commit" /\ historyTable[k].apac.kind = "none"
  /\ \E e \in Range(EntriesOf("emea")) :
       /\ extractTimestamp(e.message) # NullStr
       /\ \A k \in DOMAIN historyTable : historyTable[k].ts # extractTimestamp(e.message)

\* the targets whose git log command fails
UnreadableTargets == {t \in {"main", "emea", "apac"} : ~gitLogs[t].ok}

\* C15: when the log of a target cannot be read, readGitLog yields an empty
\* log for that target and buildHistoryTable completes; the run proceeds to
\* the writes, with an empty history section when the unreadable log is the
\* primary one.
C15_UnreadableLogIsAnEmptyLog ==
  /\ \A t \in UnreadableTargets : EntriesOf(t) = <<>>
  /\ (UnreadableTargets # {} /\ Len(jobs) > 0 /\ pc \notin {"fetch", "sleep", "fetched"}) =>
        BuiltHistory
  /\ BuiltHistory =>
        /\ "main" \in UnreadableTargets => historyTable = <<>>
        /\ \A t \in UnreadableTargets \ {"main"} :
             \A k \in DOMAIN historyTable : historyTable[k][t].kind = "none"
        /\ \A doc \in Documents : doc.history = historyTable

\* the primary log is unreadable after printing an entry, and a document
\* has been written; or a secondary log is, under a table with rows
C15_Witness ==
  /\ ~gitLogs.main.ok
  /\ gitLogs.main.out # <<>>
  /\ gitLogs.emea.ok /\ EntriesOf("emea") # <<>>
  /\ \E doc \in Documents : doc.history = <<>>

----------------------------------------------------------------------------
(* Dry-run mode, checked under Spec *)

\* the i-th writeFile call of a run on the fetched feed with the buckets g,
\* whatever the mode
ExpectedCall(i, g) ==
  [path |-> Paths[i], content |-> output(i, g, jobs, meta, historyTable, now)]

\* C16: with the dry-run switch on, no run creates a directory or writes a
\* file: every writeFile call only reports and returns, while the fetch and
\* the same sequence of writeFile calls (same paths, same contents, same
\* order) take place as in normal mode.
\* (Each call is the latest one in the state that follows it, so the
\* contents are compared call by call.)
C16_DryRunChangesNothingOnDisk ==
  /\ dryRun => /\ \A p \in DOMAIN fs : fs[p] = Prior
               /\ dirs = {}
               /\ fatal # "write"
               /\ pc # "fetch" => Len(log) > 0
  /\ \A i \in DOMAIN calls : calls[i].path = Paths[i]
  /\ calls # <<>> => calls[Len(calls)] = ExpectedCall(Len(calls), groupByRegion(jobs))
  /\ pc = "done" => Len(calls) = 9

\* a dry run that has made its nine writeFile calls
C16_Witness == dryRun /\ pc = "done" /\ Len(calls) = 9 /\ Len(jobs) > 1

----------------------------------------------------------------------------
(* The export of the skill list under every short text *)

S_SkillsExample == <<"P","y","t","h","o","n","(","0",".","9","5",")",",",
  " ","A","W","S","(","0",".","8","0",")",","," ","G","o">>
S_Python == <<"P","y","t","h","o","n">>
S_AWS == <<"A","W","S">>
S_Go == <<"G","o">>
S_NameMissing == <<"G","o",","," ","(","0",".","9","5",")">>
S_LineBreak == <<"N","o","\n","d","e","(","1",")">>

\* the characters of a short skill list
SkillChars == {"a", ",", "(", ")", " ", "\n"}

\* the values of the skills field: absent, a short text, the examples
SkillTexts ==
  {Undef, S_SkillsExample, S_NameMissing, S_LineBreak} \cup SeqUpTo(SkillChars, MaxSkillLen)

\* a dry run on a feed of one record with any skill list; with the example
\* the endpoint may fail once before it answers
InitSkills ==
  /\ \/ net \in {<<Http(200, <<JobLine([j1 EXCEPT !.skills = s])>>)>> : s \in SkillTexts}
     \/ net = <<Http(503, <<>>), Http(200, <<JobLine([j1 EXCEPT !.skills = S_SkillsExample])>>)>>
  /\ dryRun = TRUE
  /\ gitLogs = SampleLogs
  /\ InitRun

SpecSkills == InitSkills /\ [][Next]_vars

----------------------------------------------------------------------------
(* Properties of parseSkills, checked under SpecSkills *)

\* the names an entry may be left with once its trailing parenthesized
\* annotation is removed and it is trimmed: the text before an opening
\* parenthesis that the closing one at the end of the entry answers, no
\* other closing one standing between them; the whole entry when it ends
\* in no annotation
NamesOf(entry) ==
  LET t == trim(entry)
      opens == {i \in 1..(Len(t) - 2) :
                  /\ t[i] = "("
                  /\ t[Len(t)] = ")"
                  /\ \A k \in (i + 1)..(Len(t) - 1) : t[k] # ")"}
  IN IF opens = {} THEN {t} ELSE {trim(SubSeq(t, 1, i - 1)) : i \in opens}

\* the lists the claim allows for the text str: a name for every entry, the
\* empty ones dropped, in input order
ListsAsClaimed(str) ==
  IF ~Truthy(str) THEN {<<>>}
  ELSE LET entries == Split(str, ",")
       IN {SelectSeq(names, LAMBDA n : n # <<>>) :
             names \in {f \in [DOMAIN entries -> UNION {NamesOf(entries[k]) : k \in DOMAIN entries}] :
                          \A k \in DOMAIN entries : f[k] \in NamesOf(entries[k])}}

\* the export of the whole feed, once written: its k-th entry is made from
\* the k-th record of jobs
MainExport ==
  {calls[i].content : i \in {k \in DOMAIN calls : calls[k].path = "main/data/jobs.json"}}

\* C18: parseSkills splits its input on commas, removes the trailing
\* parenthesized annotation of each entry, trims it, and returns the
\* non-empty results in input order: it never returns an empty entry,
\* 'Python(0.95), AWS(0.80), Go' gives [Python, AWS, Go], and an empty or
\* absent input gives the empty list.
C18_SkillsAreNamesWithoutAnnotation ==
  \A file \in MainExport :
    /\ DOMAIN file.entries = DOMAIN jobs
    /\ \A k \in DOMAIN file.entries :
         LET given == jobs[k].skills
             skills == file.entries[k].skills
         IN /\ skills \in ListsAsClaimed(given)
            /\ \A i \in DOMAIN skills : skills[i] # <<>>
            /\ given = S_SkillsExample => skills = <<S_Python, S_AWS, S_Go>>
            /\ given \in {Undef, <<>>} => skills = <<>>

----------------------------------------------------------------------------
(* The salary-first policy of the first revision *)

\* the size of the hero table of the first revision
TOP == 20

S_r1 == <<"r","1">>
S_r2 == <<"r","2">>
S_r3 == <<"r","3">>
S_r4 == <<"r","4">>
S_r5 == <<"r","5">>
S_r6 == <<"r","6">>

\* records with a salary above the cap, with equal salaries scraped at
\* different times, with salaryMin only, without a salary, without scrapedAt
SalaryPool ==
  { Job(S_r1, S_Dev, S_Acme, "NA", "true", "full", 0, 2000000, 50 * HOUR),
    Job(S_r2, S_Dev, S_Acme, "NA", "true", "full", 0, 150000, 10 * HOUR),
    Job(S_r3, S_Dev, S_Acme, "NA", "true", "full", 0, 150000, 30 * HOUR),
    Job(S_r4, S_Dev, S_Acme, "NA", "true", "full", 90000, 0, 20 * HOUR),
    Job(S_r5, S_Dev, S_Acme, "NA", "true", "full", 0, 0, 40 * HOUR),
    Job(S_r6, S_Dev, S_Acme, "NA", "true", "full", 0, 150000, 0) }

\* mainReadme of the first revision takes the top of the whole feed:
\* sortJobs(allJobs).slice(0, 20)
HeroTable ==
  /\ pc = "hero"
  /\ topJobs' = slice(sortJobsSalaryFirst(jobs), TOP)
  /\ pc' = "heroDone"
  /\ UNCHANGED <<net, dryRun, now, attempt, log, sleeps, pending, jobs, meta, groups,
                 calls, fs, dirs, gitLogs, historyTable, exitCode, fatal>>

\* the first revision about to render, with any feed of up to MaxSortLen
\* records fetched
InitSalaryFirst ==
  /\ jobs \in SeqUpTo(SalaryPool, MaxSortLen)
  /\ pc = "hero"
  /\ net = <<Http(200, [i \in DOMAIN jobs |-> JobLine(jobs[i])])>>
  /\ log = net
  /\ dryRun = FALSE
  /\ gitLogs = SampleLogs
  /\ now = 100 * HOUR
  /\ attempt = 1
  /\ sleeps = <<>>
  /\ pending = 0
  /\ meta = NoMeta
  /\ groups = EmptyGroups
  /\ calls = <<>>
  /\ fs = [p \in Range(Paths) |-> Prior]
  /\ dirs = {}
  /\ historyTable = <<>>
  /\ topJobs = <<>>
  /\ exitCode = -1
  /\ fatal = "none"

SpecSalaryFirst == InitSalaryFirst /\ [][HeroTable]_vars

----------------------------------------------------------------------------
(* Properties of the salary-first policy, checked under SpecSalaryFirst *)

\* the salary a record is ranked by: salaryMax, else salaryMin, and zero
\* when that is above 600000
Capped(j) ==
  LET v == IF j.salaryMax > 0 THEN j.salaryMax ELSE j.salaryMin
  IN IF v > 600000 THEN 0 ELSE v

\* C19: under the salary-first policy every record with a positive capped
\* salary comes before every record whose capped salary is zero, records
\* with positive capped salaries are in descending order of that value, and
\* records with equal capped salary are in descending order of scrapedAt; a
\* salary above 600000 is capped to zero, so a record with salaryMax 2000000
\* ranks below a record with salaryMax 150000.
C19_SalaryFirstOrder ==
  pc = "heroDone" =>
    \A i, k \in DOMAIN topJobs :
      i < k =>
        LET a == topJobs[i]
            b == topJobs[k]
        IN /\ ~(Capped(a) = 0 /\ Capped(b) > 0)
           /\ Capped(a) >= Capped(b)
           /\ (Capped(a) = Capped(b) /\ a.scrapedAt # 0 /\ b.scrapedAt # 0) =>
                a.scrapedAt >= b.scrapedAt
           /\ ~(a.salaryMax = 2000000 /\ b.salaryMax = 150000)

----------------------------------------------------------------------------
(* The fetched dataset after the fetch, checked under Spec *)

\* the records of the job lines of the body fetchJobs returned from
RecordsOfFeed ==
  LET lines == SelectSeq(log[Len(log)].body, LAMBDA l : l.kind = "obj" /\ l.type = "job")
  IN [i \in DOMAIN lines |-> lines[i].d]

\* C20: no step after the fetch changes the fetched dataset: after
\* groupByRegion, sortJobs, jobTable, buildDataJson and the renders of the
\* three targets, the fetched jobs list holds the same records with the same
\* field values in the same order, and every bucket keeps the records it was
\* given in feed order.
C20_FetchedDatasetIsNeverChanged ==
  FetchReturned =>
    /\ jobs = RecordsOfFeed
    /\ \A c \in RegionCodes :
         groups.bucket[c] = SelectSeq(jobs, LAMBDA j : j \in Range(groups.bucket[c]))

\* the three targets have been rendered from a bucket of two records that
\* the feed carries oldest first
C20_Witness ==
  /\ pc = "done"
  /\ \E c \in RegionCodes :
       /\ Len(groups.bucket[c]) = 2
       /\ groups.bucket[c][1].scrapedAt # 0
       /\ groups.bucket[c][1].scrapedAt < groups.bucket[c][2].scrapedAt

----------------------------------------------------------------------------
(* The Jobs by Region table, checked under Spec *)

\* the main document, once written
MainDocument ==
  {calls[i].content : i \in {k \in DOMAIN calls : calls[k].path = "main/README.md"}}

\* the sum of a column over the five region rows
RegionSum(doc, column) ==
  doc.regionRows["WW"][column] + doc.regionRows["EMEA"][column]
    + doc.regionRows["APAC"][column] + doc.regionRows["NA"][column]
    + doc.regionRows["LATAM"][column]

\* C21: in the main document the Total row of the Jobs by Region table
\* equals the sum of the five region rows above it, column by column (Jobs,
\* With Salary, Verified), for every fetched dataset.
C21_TotalRowIsTheSumOfTheRegionRows ==
  \A doc \in MainDocument :
    \A column \in {"jobs", "sal", "ver"} : doc.total[column] = RegionSum(doc, column)

----------------------------------------------------------------------------
(* The stream of a successful response *)

\* a second metadata line, with another logo map, and a line with a tag
\* that is neither job nor meta
Logos2 == [n \in {<<"z","e","d","c","o">>} |-> "logo-9"]
MetaLine2 == Envelope("meta", Null, Logos2)
ProgressLine == Envelope("progress", Null, <<>>)

StreamLines ==
  {BlankLine, DoneLine, ProgressLine, MetaLine, MetaLine2, JobLine(j1), JobLine(j4)}

\* a dry run on a 2xx response with any stream of up to MaxStream lines; with
\* one of them the endpoint fails once before it answers
InitStream ==
  /\ \/ net \in {<<Http(status, b)>> : status \in {200, 206}, b \in SeqUpTo(StreamLines, MaxStream)}
     \/ net = <<Http(503, <<>>), Http(200, <<MetaLine, JobLine(j4), DoneLine>>)>>
  /\ dryRun = TRUE
  /\ gitLogs = SampleLogs
  /\ InitRun

SpecStream == InitStream /\ [][Next]_vars

----------------------------------------------------------------------------
(* Properties of the parse of the stream, checked under SpecStream *)

\* the body of the response fetchJobs returned from
ReturnedBody == log[Len(log)].body

HasTag(line, tag) == line.kind = "obj" /\ line.type = tag

\* the place in the stream of the k-th line tagged job
JobLineAt(body, k) ==
  CHOOSE i \in DOMAIN body :
    /\ HasTag(body[i], "job")
    /\ Cardinality({n \in 1..i : HasTag(body[n], "job")}) = k

\* C22: from a 2xx response fetchJobs returns as jobs exactly the d payloads
\* of the lines tagged job, in stream order and one per line, and as meta
\* the last line tagged meta (null when there is none); blank lines and
\* lines with any other tag, done included, contribute nothing.
C22_JobsAndMetaOfTheStream ==
  FetchReturned =>
    LET body == ReturnedBody
    IN /\ Len(jobs) = Cardinality({i \in DOMAIN body : HasTag(body[i], "job")})
       /\ \A k \in DOMAIN jobs : jobs[k] = body[JobLineAt(body, k)].d
       /\ IF \E i \in DOMAIN body : HasTag(body[i], "meta")
          THEN \E i \in DOMAIN body :
                 /\ HasTag(body[i], "meta")
                 /\ meta = body[i]
                 /\ \A n \in DOMAIN body : n > i => ~HasTag(body[n], "meta")
          ELSE meta = NoMeta

\* a stream with two different meta lines and a job line
C22_Witness ==
  /\ FetchReturned
  /\ Len(jobs) > 0
  /\ Len(ReturnedBody) > Len(jobs) + 1
  /\ \E i, k \in DOMAIN ReturnedBody :
       /\ i < k
       /\ HasTag(ReturnedBody[i], "meta")
       /\ HasTag(ReturnedBody[k], "meta")
       /\ ReturnedBody[i] # ReturnedBody[k]

\* ---------------------------------------------------------------------
\* The salary cell

\* the salary bounds a record may carry; 0 stands for an absent bound
Amounts == {0, 950, 1499, 1500, 120000, 1500000}

\* a record with the bounds a and b and the free-text salary s
Paid(a, b, s) == [j1 EXCEPT !.salaryMin = a, !.salaryMax = b, !.salary = s]

\* feeds of one record, over every pair of bounds, with and without the
\* free-text salary
InitSalary ==
  /\ \/ net \in {<<Http(200, <<JobLine(Paid(a, b, s))>>)>> :
                   a \in Amounts, b \in Amounts, s \in {Undef, S_Hourly}}
     \/ net = <<Http(503, <<>>), Http(200, <<JobLine(Paid(950, 1500, S_Hourly))>>)>>
  /\ dryRun = TRUE
  /\ gitLogs = SampleLogs
  /\ InitRun

SpecSalary == InitSalary /\ [][Next]_vars

\* the compacted value of each bound, as the documents show it
Compacted ==
  [n \in Amounts \ {0} |->
     CASE n = 950 -> <<"$","9","5","0">>
       [] n = 1499 -> <<"$","1","k">>
       [] n = 1500 -> <<"$","2","k">>
       [] n = 120000 -> <<"$","1","2","0","k">>
       [] n = 1500000 -> <<"$","1","5","0","0","k">>]

\* the cell of the claim for the bounds a and b
SalaryAsClaimed(a, b) ==
  IF a # 0 /\ b # 0 /\ a = b THEN Compacted[a] \o PerYear
  ELSE IF a # 0 /\ b # 0 THEN Compacted[a] \o <<EnDash>> \o Compacted[b] \o PerYear
  ELSE IF a # 0 THEN Compacted[a] \o <<"+">> \o PerYear
  ELSE IF b # 0 THEN Compacted[b] \o PerYear
  ELSE <<>>

\* C23: the salary cell depends only on salaryMin and salaryMax: equal bounds
\* give one compacted value, different bounds the compacted minimum and
\* maximum joined by an en-dash, a lone minimum its compacted value followed
\* by '+', a lone maximum its compacted value alone, each followed by
\* '/year'; with no bound the cell is empty; the free-text salary of the
\* record never changes the cell.
C23_SalaryCellFromTheBoundsOnly ==
  \A doc \in MainDocument :
    LET table == doc.sections["WW"].table
    IN /\ Len(table) = Len(jobs)
       /\ \A k \in DOMAIN table :
            table[k].salary.text = SalaryAsClaimed(jobs[k].salaryMin, jobs[k].salaryMax)

\* a row was rendered for a record with a free-text salary and a range that
\* is compacted on one side only
C23_Witness ==
  \E doc \in MainDocument :
    /\ Len(jobs) = 1
    /\ Truthy(jobs[1].salary)
    /\ jobs[1].salaryMin = 950
    /\ jobs[1].salaryMax = 1500
    /\ Len(doc.sections["WW"].table) = 1

\* ---------------------------------------------------------------------
\* The line of a table row

\* the text of an age cell
ageText(a) ==
  IF a.unit = "" THEN <<>>
  ELSE IF a.unit = "<1h" THEN <<"<", "1", "h">>
  ELSE Decimal(a.n) \o <<a.unit>>

\* the text of a company cell; the fixed text of a template is kept as one
\* element, free text as its characters
companyText(c) ==
  IF c.kind = "mask" THEN <<"U+1F512", " ">> \o [i \in 1..c.blocks |-> "U+2591"]
  ELSE <<"<img src=\"https://wagey.gg/api/company-logo?", c.logo,
         "\" alt=\"\" height=\"16\">", " ">> \o c.name

\* roleTitle + debug
roleText(r) ==
  r.title \o <<" ", "<br><sub>", IF r.remote THEN "U+1F310" ELSE "U+1F3E2", " ">>
    \o (IF r.loc # <<>> THEN r.loc \o <<" ", "U+2022", " ">> ELSE <<>>)
    \o <<r.region, "</sub>">>

\* the text of a link cell
linkText(l) ==
  IF l.href = PricingUrl
  THEN <<"[", "U+1F512", " ", "P", "r", "o", "]", "(", "https://wagey.gg/pricing?ref=github", ")">>
  ELSE <<"[", "A", "p", "p", "l", "y", "]", "(", "https://wagey.gg/jobs/">> \o l.href.id
         \o (IF l.href.slug # <<>> THEN <<"-">> \o l.href.slug ELSE <<>>)
         \o <<"?ref=github", ")">>

\* | company | role | salary | age | link |
rowLine(row) ==
  <<"|", " ">> \o companyText(row.company) \o <<" ", "|", " ">> \o roleText(row.role)
    \o <<" ", "|", " ">> \o row.salary.text \o <<" ", "|", " ">> \o ageText(row.age)
    \o <<" ", "|", " ">> \o linkText(row.link) \o <<" ", "|">>

Rep(c, n) == [i \in 1..n |-> c]

\* free texts with a pipe, a line break, a backslash before a pipe, and a
\* pipe that escaping moves across the length at which the field is cut
T_Plain == <<"a", "b">>
T_Pipe == <<"a", "|", "b", "|">>
T_LineBreak == <<"a", "\n", "b">>
T_BackslashPipe == <<"a", "\\", "|", "b">>
T_LongTitle == Rep("x", 36) \o <<"|", "y", "z", "w">>
T_LongCompany == Rep("x", 24) \o <<"|", "y">>
T_LongLocation == Rep("x", 34) \o <<"|", "y">>

Titles == {T_Plain, T_Pipe, T_LineBreak, T_BackslashPipe, T_LongTitle}
Companies == {T_Plain, T_Pipe, T_LineBreak, T_BackslashPipe, T_LongCompany}
Locations == {Undef, T_Pipe, T_LineBreak, T_BackslashPipe, T_LongLocation}

\* feeds of one record over these texts, shown in full or as a teaser
InitCells ==
  /\ \/ net \in {<<Http(200, <<JobLine([j1 EXCEPT !.title = ti, !.company = co,
                                                  !.location = lo, !.visibility = v])>>)>> :
                   ti \in Titles, co \in Companies, lo \in Locations, v \in {"full", "teaser"}}
     \/ net = <<Http(503, <<>>), Http(200, <<JobLine([j1 EXCEPT !.title = T_Pipe])>>)>>
  /\ dryRun = TRUE
  /\ gitLogs = SampleLogs
  /\ InitRun

SpecCells == InitCells /\ [][Next]_vars

\* the number of backslashes that end just before place i of line
RECURSIVE BackslashesBefore(_, _)
BackslashesBefore(line, i) ==
  IF i > 1 /\ line[i - 1] = "\\" THEN 1 + BackslashesBefore(line, i - 1) ELSE 0

\* the places of the pipes that delimit a cell
Delimiters(line) ==
  {i \in DOMAIN line : line[i] = "|" /\ BackslashesBefore(line, i) % 2 = 0}

\* the table rows written so far
RowsWritten ==
  UNION {UNION {Range(doc.sections[c].table) : c \in DOMAIN doc.sections} : doc \in Documents}

\* C24: the row jobTable renders for a record is a single line with exactly
\* six cell-delimiting pipes, a pipe delimiting a cell unless it is preceded
\* by an odd number of consecutive backslashes, whatever characters (pipes,
\* backslashes, line breaks) the title, the company and the location of the
\* record contain, and also after they are cut to 40, 25 and 35 characters.
C24_RowIsOneLineOfSixCells ==
  \A row \in RowsWritten :
    /\ "\n" \notin Range(rowLine(row))
    /\ Cardinality(Delimiters(rowLine(row))) = 6

\* ---------------------------------------------------------------------
\* The age cell

\* how long before the clock reading a record was scraped (ms), with the
\* cell expected; a negative time is a timestamp in the future
AgeSamples ==
  { [ago |-> 1, text |-> <<"<", "1", "h">>],
    [ago |-> HOUR - 1, text |-> <<"<", "1", "h">>],
    [ago |-> HOUR, text |-> <<"1", "h">>],
    [ago |-> 24 * HOUR - 1, text |-> <<"2", "3", "h">>],
    [ago |-> 24 * HOUR, text |-> <<"1", "d">>],
    [ago |-> 48 * HOUR - 1, text |-> <<"1", "d">>],
    [ago |-> 48 * HOUR, text |-> <<"2", "d">>],
    [ago |-> 72 * HOUR - 1, text |-> <<"2", "d">>],
    [ago |-> 99 * HOUR, text |-> <<"4", "d">>],
    [ago |-> -1, text |-> <<"<", "1", "h">>],
    [ago |-> -HOUR, text |-> <<"<", "1", "h">>],
    [ago |-> -30 * HOUR, text |-> <<"<", "1", "h">>] }

\* feeds of one record scraped at each of these times, or with no timestamp
InitAge ==
  /\ InitRun
  /\ dryRun = TRUE
  /\ gitLogs = SampleLogs
  /\ \/ net \in {<<Http(200, <<JobLine([j1 EXCEPT !.scrapedAt = now - a.ago,
                                                  !.visibility = v])>>)>> :
                   a \in AgeSamples, v \in {"full", "teaser"}}
     \/ net \in {<<Http(200, <<JobLine([j1 EXCEPT !.scrapedAt = 0, !.visibility = v])>>)>> :
                   v \in {"full", "teaser"}}
     \/ net = <<Http(503, <<>>), Http(200, <<JobLine(j1)>>)>>

SpecAge == InitAge /\ [][Next]_vars

\* the cell of the claim for a record scraped h whole hours ago
AgeAsClaimed(h) ==
  IF h < 1 THEN <<"<", "1", "h">>
  ELSE IF h < 24 THEN Decimal(h) \o <<"h">>
  ELSE IF h < 48 THEN <<"1", "d">>
  ELSE Decimal(h \div 24) \o <<"d">>

\* the whole hours, rounded down, that m milliseconds hold (-1 stands for
\* every time in the future)
WholeHours(m) ==
  IF m < 0 THEN -1 ELSE CHOOSE h \in 0..240 : h * HOUR <= m /\ m < (h + 1) * HOUR

\* C25: fmtAge, for a timestamp lying h whole hours (rounded down) before the
\* current instant, gives '<1h' when h < 1, h followed by 'h' when
\* 1 <= h < 24, '1d' when 24 <= h < 48, and floor(h/24) followed by 'd' when
\* h >= 48; a timestamp in the future gives '<1h' and an absent timestamp
\* the empty text.
C25_AgeCellByWholeHours ==
  \A doc \in MainDocument :
    LET table == doc.sections["WW"].table
    IN /\ Len(table) = Len(jobs)
       /\ \A k \in DOMAIN table :
            LET at == jobs[k].scrapedAt
                shown == ageText(table[k].age)
            IN /\ at = 0 => shown = <<>>
               /\ at # 0 => shown = AgeAsClaimed(WholeHours(now - at))
               /\ at > now => shown = <<"<", "1", "h">>
               /\ \A a \in AgeSamples : at = now - a.ago => shown = a.text

\* a row was rendered for a record scraped one millisecond less than two
\* days before the clock reading
C25_Witness ==
  \E doc \in MainDocument :
    /\ Len(jobs) = 1
    /\ jobs[1].scrapedAt = now - (48 * HOUR - 1)
    /\ Len(doc.sections["WW"].table) = 1

\* ---------------------------------------------------------------------
\* What a retried fetch returns

\* a stream that breaks off after a meta line and a job line
BrokenBody == <<MetaLine2, JobLine(j1), BadLine>>

\* the ways an attempt fails before the endpoint settles
RetryFaults == {NetErr, Http(503, <<>>), Http(404, <<>>), Http(200, BrokenBody)}

\* what the endpoint settles on: a failure, or a feed that repeats the
\* record of the broken stream, with or without a meta line
RetryFinals ==
  RetryFaults \cup {Http(200, <<JobLine(j1), JobLine(j4)>>),
                    Http(200, <<MetaLine, JobLine(j1)>>)}

InitRetry ==
  /\ net \in {p \o <<r>> : p \in SeqUpTo(RetryFaults, MAX_RETRIES - 1), r \in RetryFinals}
  /\ dryRun = TRUE
  /\ gitLogs = SampleLogs
  /\ InitRun

SpecRetry == InitRetry /\ [][Next]_vars

\* the last line tagged meta of a body, null when it has none
LastMetaOf(body) ==
  LET metas == {i \in DOMAIN body : HasTag(body[i], "meta")}
  IN IF metas = {} THEN NoMeta ELSE body[CHOOSE i \in metas : \A k \in metas : k <= i]

\* C26: every execution of fetchJobs ends by throwing or by returning
\* {jobs, meta} built only from the response of its last attempt: records
\* and metadata of an earlier, failed attempt never appear in the result, no
\* record appears twice because of a retry, and the retry loop never ends
\* without a result (the caller never receives undefined).
C26_ResultIsOfTheLastAttemptOnly ==
  /\ fatal # "destructure"
  /\ attempt <= MAX_RETRIES
  /\ pc = "sleep" => attempt < MAX_RETRIES
  /\ FetchReturned =>
       /\ Len(log) = attempt
       /\ jobs = RecordsOfFeed
       /\ meta = LastMetaOf(ReturnedBody)

\* fetchJobs returned the feed without meta line after a broken stream that
\* held a meta line and the same record
C26_Witness ==
  /\ FetchReturned
  /\ Len(log) > 1
  /\ \E i \in 1..(Len(log) - 1) : log[i] = Http(200, BrokenBody)
  /\ jobs = <<j1, j4>>
  /\ meta = NoMeta

\* ---------------------------------------------------------------------
\* The summary lines, committed and read back by a later run

\* String(n).padStart(len, '0')
padStart(s, len) == [i \in 1..(len - Len(s)) |-> "0"] \o s

\* n.toLocaleString() in the en-US locale: the digits in groups of three
RECURSIVE toLocaleString(_)
toLocaleString(n) ==
  IF n < 1000 THEN Decimal(n)
  ELSE toLocaleString(n \div 1000) \o <<",">> \o padStart(Decimal(n % 1000), 3)

Months ==
  << <<"J","a","n">>, <<"F","e","b">>, <<"M","a","r">>, <<"A","p","r">>,
     <<"M","a","y">>, <<"J","u","n">>, <<"J","u","l">>, <<"A","u","g">>,
     <<"S","e","p">>, <<"O","c","t">>, <<"N","o","v">>, <<"D","e","c">> >>

\* getUTCFullYear, getUTCMonth + 1 and getUTCDate of the day that lies the
\* given number of days after 1 January 1970
UTCDate(days) ==
  LET z == days + 719468
      era == z \div 146097
      doe == z - era * 146097
      yoe == (doe - doe \div 1460 + doe \div 36524 - doe \div 146096) \div 365
      doy == doe - (365 * yoe + yoe \div 4 - yoe \div 100)
      mp == (5 * doy + 2) \div 153
      m == IF mp < 10 THEN mp + 3 ELSE mp - 9
  IN [y |-> yoe + era * 400 + (IF m <= 2 THEN 1 ELSE 0),
      m |-> m,
      d |-> doy - (153 * mp + 2) \div 5 + 1]

\* the text fmtDateTime returns: d-Mon-YYYY HH:MM UTC
dateTimeText(ts) ==
  LET date == UTCDate(ts.minute \div 1440)
      hh == padStart(Decimal((ts.minute % 1440) \div 60), 2)
      mm == padStart(Decimal(ts.minute % 60), 2)
  IN Decimal(date.d) \o <<"-">> \o Months[date.m] \o <<"-">> \o Decimal(date.y)
       \o <<" ">> \o hh \o <<":">> \o mm \o <<" ">> \o W_UTC

W_withSalary == <<" ","w","i","t","h"," ","s","a","l","a","r","y"," ","|"," ">>
W_verified == <<" ","v","e","r","i","f","i","e","d">>
W_ProTeasers == <<" ","P","r","o"," ","t","e","a","s","e","r","s">>

\* the text of a summary line (the em dash is written --)
msgText(msg) ==
  toLocaleString(msg.jobs) \o <<" ">>
    \o (IF msg.label = "" THEN <<>>
        ELSE IF msg.label = "EMEA" THEN W_EMEA_ ELSE W_APAC_)
    \o W_jobs \o <<" ", "|", " ">>
    \o toLocaleString(msg.sal) \o W_withSalary
    \o toLocaleString(msg.ver) \o W_verified
    \o (IF msg.label = "" THEN <<" ", "|", " ">> \o Decimal(msg.teasers) \o W_ProTeasers
        ELSE <<>>)
    \o <<" ", "-", "-", " ">> \o dateTimeText(msg.ts)

\* the publications a primary log may come to hold
MaxCommits == 2

\* the time from the end of a run to the start of the next (ms): within
\* the same minute, and days later
Gaps == {20000, 5 * 24 * HOUR + 13 * HOUR + 7 * 60000}

\* the feeds of the runs: with and without records of the secondary targets
PublishFeeds ==
  { <<MetaLine, JobLine(j1), JobLine(j4)>>,
    <<JobLine(j1)>>,
    <<JobLine(j4), JobLine(CHOOSE j \in JobPool : j.id = S_j11),
      JobLine(CHOOSE j \in JobPool : j.region = "APAC")>> }

\* the log of a target after the commit of its summary file as subject
committed(repo, path) ==
  LET n == Len(readGitLog(repo))
      line == <<"c">> \o Decimal(n) \o <<"|", "D", "|">> \o msgText(fs[path])
  IN [ok |-> TRUE, out |-> line \o <<"\n">> \o repo.out]

\* after a run that wrote its nine files, each target is committed with its
\* data/commit-msg.txt as the subject; the next run starts later
Commit ==
  /\ pc = "done"
  /\ ~dryRun
  /\ Len(readGitLog(gitLogs.emea)) < MaxCommits
  /\ gitLogs' = [main |-> committed(gitLogs.main, "main/data/commit-msg.txt"),
                 emea |-> committed(gitLogs.emea, "emea/data/commit-msg.txt"),
                 apac |-> committed(gitLogs.apac, "apac/data/commit-msg.txt")]
  /\ \E gap \in Gaps : now' = now + gap
  /\ \E b \in PublishFeeds : net' = <<Http(200, b)>>
  /\ pc' = "fetch"
  /\ attempt' = 1
  /\ log' = <<>>
  /\ sleeps' = <<>>
  /\ jobs' = <<>>
  /\ meta' = NoMeta
  /\ groups' = EmptyGroups
  /\ calls' = <<>>
  /\ historyTable' = <<>>
  /\ exitCode' = -1
  /\ UNCHANGED <<dryRun, pending, fs, dirs, topJobs, fatal>>

\* the first run finds a primary log with a code change only; its feed may
\* hold a thousand records
InitPublish ==
  /\ \/ net \in {<<Http(200, b)>> : b \in PublishFeeds}
     \/ net = <<Http(200, BulkBody(1000, "EMEA", "newestFirst"))>>
     \/ net = <<Http(503, <<>>), Http(200, <<JobLine(j1)>>)>>
  /\ dryRun = FALSE
  /\ gitLogs = [main |-> LogOf(<<L_MainCode>>), emea |-> LogOf(<<>>), apac |-> LogOf(<<>>)]
  /\ InitRun

NextPublish == Attempt \/ Sleep \/ Main \/ WriteFile \/ Commit

SpecPublish == InitPublish /\ [][NextPublish]_vars

\* this run has built its history and written nothing yet: the summary
\* files on disk are those the latest commits were made from
HistoryOfCommittedRun ==
  /\ pc = "write"
  /\ calls = <<>>
  /\ readGitLog(gitLogs.emea) # <<>>

\* C27: the three summary lines end with the same timestamp text, computed
\* once; extractTimestamp gives back exactly that text and extractJobCount
\* the count the line begins with, also after the line went through the
\* '|'-separated log format of readGitLog; hence the history table of a
\* later run shows that run as one row with no placeholder cell.
C27_CommittedRunIsOneFullRow ==
  HistoryOfCommittedRun =>
    LET m == fs["main/data/commit-msg.txt"]
        e == fs["emea/data/commit-msg.txt"]
        a == fs["apac/data/commit-msg.txt"]
        latest == readGitLog(gitLogs.main)[1].hash
        shown == {k \in DOMAIN historyTable : historyTable[k].main.hash = latest}
        alone == \A k \in DOMAIN historyTable : k > 1 => historyTable[k].ts # historyTable[1].ts
    IN /\ e.ts = m.ts
       /\ a.ts = m.ts
       /\ shown = {1}
       /\ historyTable[1].ts = dateTimeText(m.ts)
       /\ m.ts.minute = 6000 =>
            historyTable[1].ts = <<"5","-","J","a","n","-","1","9","7","0"," ",
                                   "0","4",":","0","0"," ","U","T","C">>
       /\ historyTable[1].main.count = toLocaleString(m.jobs)
       /\ historyTable[1].emea.kind = "commit"
       /\ historyTable[1].apac.kind = "commit"
       /\ historyTable[1].emea.count # <<"?">>
       /\ historyTable[1].apac.count # <<"?">>
       /\ alone => /\ historyTable[1].emea.count = toLocaleString(e.jobs)
                   /\ historyTable[1].apac.count = toLocaleString(a.jobs)

\* the second publication, made on a day with two digits, is read back
C27_Witness ==
  /\ HistoryOfCommittedRun
  /\ Len(historyTable) = 2
  /\ historyTable[1].ts # historyTable[2].ts
  /\ historyTable[1].ts[2] # "-"
  /\ historyTable[1].emea.count # historyTable[2].emea.count

\* ---------------------------------------------------------------------
\* A feed whose records are all left out

\* the record is of those the grouping leaves out: a noise title, Worldwide
\* without the remote flag, a region that is none of the five codes
LeftOut(j) ==
  \/ isGarbageJob(j)
  \/ RegionOrWW(j) = "WW" /\ ~IsRemote(j)
  \/ RegionOrWW(j) \notin RegionCodes

\* fetchJobs returned records, all of them of that kind
OnlyLeftOutRecords ==
  /\ FetchReturned
  /\ jobs # <<>>
  /\ \A k \in DOMAIN jobs : LeftOut(jobs[k])

\* C28: the empty-feed abort is decided on the number of fetched records
\* before any filtering: a run whose feed holds at least one record, every
\* one of which is left out of all buckets (noise title, non-remote WW,
\* unrecognized region), does not abort; it writes all nine files, with the
\* 'No jobs currently listed' placeholder in place of every job table.
C28_FeedOfLeftOutRecordsIsPublished ==
  OnlyLeftOutRecords =>
    /\ pc = "exit" => fatal = "write"
    /\ pc = "done" => Len(calls) = Len(Paths)
    /\ \A doc \in Documents : \A c \in DOMAIN doc.sections : doc.sections[c].table = <<>>

\* ---------------------------------------------------------------------
\* What the exports and the primary summary line cover

\* the files written so far at a path
WrittenAt(path) == {calls[i].content : i \in {k \in DOMAIN calls : calls[k].path = path}}

\* the entries of an export are made of the records given, one entry per
\* record, in their order
EntriesOfRecords(file, records) ==
  /\ DOMAIN file.entries = DOMAIN records
  /\ \A k \in DOMAIN records :
       /\ file.entries[k].id = records[k].id
       /\ file.entries[k].title = records[k].title
       /\ file.entries[k].region = records[k].region

\* C29: the primary export and the job total of the primary summary line
\* cover every fetched record, one entry per record in feed order (records
\* left out of every bucket are still exported and counted), while the EMEA
\* and APAC exports hold exactly the records of their bucket.
C29_PrimaryExportCoversTheWholeFeed ==
  /\ \A file \in WrittenAt("main/data/jobs.json") : EntriesOfRecords(file, RecordsOfFeed)
  /\ \A msg \in WrittenAt("main/data/commit-msg.txt") : msg.jobs = Len(RecordsOfFeed)
  /\ \A file \in WrittenAt("emea/data/jobs.json") :
       /\ EntriesOfRecords(file, groups.bucket["EMEA"])
       /\ EntriesOfRecords(file, SelectSeq(RecordsOfFeed,
                                           LAMBDA j : j.region = "EMEA" /\ ~isGarbageJob(j)))
  /\ \A file \in WrittenAt("apac/data/jobs.json") :
       /\ EntriesOfRecords(file, groups.bucket["APAC"])
       /\ EntriesOfRecords(file, SelectSeq(RecordsOfFeed,
                                           LAMBDA j : j.region = "APAC" /\ ~isGarbageJob(j)))

\* the run published a feed of a noise record of the EMEA region and an
\* EMEA record
C29_Witness ==
  /\ pc = "done"
  /\ Len(jobs) = 2
  /\ isGarbageJob(jobs[1])
  /\ jobs[1].region = "EMEA"
  /\ Len(groups.bucket["EMEA"]) = 1
  /\ \E file \in WrittenAt("main/data/jobs.json") : Len(file.entries) = 2
  /\ \E file \in WrittenAt("emea/data/jobs.json") : Len(file.entries) = 1

\* ---------------------------------------------------------------------
\* The company of a teaser record

\* records shown in full and teasers, bucketed and left out, with and
\* without a title
TeaserPool == {j \in JobPool : j.id \in {S_j1, S_j2, S_j4, S_j6, S_j10}}

\* feeds of up to two of these records, with and without the logo map
InitTeaser ==
  /\ \/ net \in {<<Http(200, m \o [k \in DOMAIN b |-> JobLine(b[k])])>> :
                   m \in {<<>>, <<MetaLine>>}, b \in SeqUpTo(TeaserPool, 2) \ {<<>>}}
     \/ net = <<Http(503, <<>>), Http(200, <<JobLine(j4)>>)>>
  /\ dryRun \in BOOLEAN
  /\ gitLogs = SampleLogs
  /\ InitRun

SpecTeaser == InitTeaser /\ [][Next]_vars

\* the company names a teaser record is given in the other run
OtherCompanies == {Undef, S_Acme, S_Zed}

\* the dataset of the other run: the fetched one, but with the company c in
\* every teaser record
WithTeaserCompany(js, c) ==
  [k \in DOMAIN js |-> IF js[k].visibility = "teaser" THEN [js[k] EXCEPT !.company = c]
                       ELSE js[k]]

\* the buckets of a run before its k-th writeFile call
RECURSIVE groupsBefore(_, _)
groupsBefore(k, g) == IF k = 1 THEN g ELSE afterRender(k - 1, groupsBefore(k - 1, g))

\* C30: two runs on datasets that differ only in the company field of
\* teaser records (same clock, same logs, same logo map) produce identical
\* documents, exports and summary lines for all three targets: the content
\* of each file this run writes is the content the run on the other dataset
\* writes, and that run ends the same way.
C30_TeaserCompanyIsNeverPublished ==
  FetchReturned =>
    \A c \in OtherCompanies :
      LET other == WithTeaserCompany(jobs, c)
          k == Len(calls)
      IN /\ noJobs(other) = noJobs(jobs)
         /\ ~noJobs(jobs) => groupByRegion(other).threw = groupByRegion(jobs).threw
         /\ k > 0 =>
              calls[k].content =
                output(k, groupsBefore(k, groupByRegion(other)), other, meta, historyTable, now)

\* the run published a teaser record of a bucket that names its company
C30_Witness ==
  /\ pc = "done"
  /\ \E k \in DOMAIN jobs :
       /\ jobs[k].visibility = "teaser"
       /\ jobs[k] \in Bucketed
       /\ jobs[k].company = S_Acme
       /\ WithTeaserCompany(jobs, S_Zed) # jobs

====
